---- MODULE Spec2Model ----
(***************************************************************************)
(* Session, rate-limit and usage-accounting layer of the Neuber correction *)
(* server: the fixed-window rate limiter (app/utils/session.py), the       *)
(* SQLite store behind it (app/db/sqlite3.py) and the routes that call     *)
(* them (app/api/routes).                                                  *)
(*                                                                         *)
(* Time is a counter of clock ticks, TicksPerSec ticks to the second, so   *)
(* that datetime values (sub-second resolution) and the epoch seconds of   *)
(* int(x.timestamp()) are different things.  Every store statement         *)
(* (SELECT / INSERT / UPDATE + commit) is one atomic step; what a worker   *)
(* does between two statements interleaves with the other workers.         *)
(***************************************************************************)
EXTENDS Integers, Sequences, FiniteSets, TLC

\* ------------------------------------------------------------------ bounds
MaxTime == 5
TicksPerSec == 2
MaxLimit == 2
MaxWindow == 1
MaxCount == 3
MaxRequests == 3
MaxTtl == 2
MaxLogs == 2
MaxCalls == 3
MaxLifetimes == 2
MaxConns == 3
MaxExtra == 2

Workers == {"w1", "w2"}
SeqWorkers == {"w1"}
Categories == {"calculate", "plot"}
Clients == {"s1"}
Keys == Categories \X Clients
SharedKeys == {"calculate"} \X Clients
SessionIds == {"abc", "def"}
SharedSessionIds == {"abc"}
IpAddresses == {"1.2.3.4", "5.6.7.8"}

VARIABLES
  now,          \* the wall clock, in ticks
  limit,        \* Settings().rate_limit_requests
  window,       \* Settings().rate_limit_window, in seconds
  store,        \* the db handed to the helpers: "healthy", "faulty" or "none"
  rate_limits,  \* table rate_limits: key -> [requests, window_start]
  pc,           \* where each worker is
  call,         \* check_rate_limit's locals, per worker
  result,       \* what check_rate_limit returned, per worker
  win,          \* history: per key, start and call count of the current window
  sessions,     \* table sessions: session_id -> row
  touch,        \* update_session_activity's locals, per worker
  touched,      \* history: per session id, the touches and creations that
                \* returned normally since the row was last absent
  usage_logs,   \* table usage_logs, in insertion order
  req,          \* the route handler's locals, per worker
  served,       \* number of requests taken in so far
  logging,      \* log_usage's locals, per worker
  tables,       \* whether the schema has been created in the database file
  maint,        \* locals of a maintenance call (create_tables,
                \* clear_all_data, cleanup_expired_sessions), per worker
  uuids,        \* how many values uuid.uuid4() has handed out
  resolved,     \* history: <<cookie, id>> of each get_session_id call
  conns,        \* the threads whose thread-local connection is open
  handles,      \* the connections opened so far: which one each thread
                \* holds, who opened each and who has used each
  life,         \* the application process: its phase and its calls
  janitor,      \* the background cleanup loop
  user_materials,  \* session.py's user_materials, in insertion order:
                   \* a sequence of [key, materials]
  seen          \* what the last get_user_materials of a reader returned

cfgVars == <<limit, window, store>>
rlVars == <<rate_limits, call, result, win>>
sessVars == <<sessions, touch, touched>>
routeVars == <<usage_logs, req, served>>
opsVars == <<logging, tables, maint, uuids, resolved>>
procVars ==
  <<conns, handles, life, janitor, user_materials, seen>>
vars == <<now, limit, window, store, rate_limits, pc, call, result, win,
          sessions, touch, touched, usage_logs, req, served, logging, tables,
          maint, uuids, resolved, conns, handles, life, janitor,
          user_materials, seen>>

\* --------------------------------------------------------------- settings
WindowTicks == window * TicksPerSec

\* int(x.timestamp()): a datetime truncated to whole epoch seconds
ToEpochSeconds(t) == t \div TicksPerSec

\* ------------------------------------------------------------------ store
NoneRow == [requests |-> 0, window_start |-> -1]

get_rate_limit(tbl, key) == IF key \in DOMAIN tbl THEN tbl[key] ELSE NoneRow

create_rate_limit_requests_0(tbl, key, window_start) ==
  [k \in DOMAIN tbl \cup {key} |->
     IF k = key THEN [requests |-> 0, window_start |-> window_start] ELSE tbl[k]]

\* INSERT INTO rate_limits (key, requests, window_start) VALUES (?, 1, ?)
create_rate_limit(tbl, key, window_start) ==
  [k \in DOMAIN tbl \cup {key} |->
     IF k = key THEN [requests |-> 1, window_start |-> window_start] ELSE tbl[k]]

update_rate_limit_all_keys(tbl, key, requests, window_start) ==
  [k \in DOMAIN tbl |-> [requests |-> requests, window_start |-> window_start]]

\* UPDATE rate_limits SET requests = ?, window_start = ? WHERE key = ?
update_rate_limit(tbl, key, requests, window_start) ==
  [k \in DOMAIN tbl |->
     IF k = key THEN [requests |-> requests, window_start |-> window_start]
     ELSE tbl[k]]

NoSession == [created_at |-> -1, last_activity |-> -1, request_count |-> 0,
              ip_address |-> ""]

\* db.get_session(session_id): the row, or None
get_session(tbl, session_id) ==
  IF session_id \in DOMAIN tbl THEN tbl[session_id] ELSE NoSession

get_session_count_distinct_ip(tbl) ==
  Cardinality({tbl[x].ip_address : x \in DOMAIN tbl})

\* SELECT COUNT(*) FROM sessions
get_session_count(tbl) == Cardinality(DOMAIN tbl)

\* ---------------------------------------------------------- rate limiter
NoReq == [route |-> "", session_id |-> "", ip_address |-> "",
          start_time |-> -1, status |-> 0, handler_ran |-> FALSE,
          error |-> "", db_status |-> "", session_count |-> -1,
          count_raised |-> FALSE, trace |-> <<>>, logs_before |-> 0]

NoResult == [allowed |-> FALSE, limit |-> -1, remaining |-> -1, reset |-> -1]
NoCall == [key |-> <<"", "">>, now |-> -1, rate_limit |-> NoneRow,
           raised |-> FALSE]

\* The info returned on the create, reset, db-is-None and except paths.
DefaultInfo(t) ==
  [allowed |-> TRUE, limit |-> limit, remaining |-> limit - 1,
   reset |-> ToEpochSeconds(t + WindowTicks)]

OnStoreError_denies(t) ==
  [allowed |-> FALSE, limit |-> limit, remaining |-> 0,
   reset |-> ToEpochSeconds(t + WindowTicks)]

\* except Exception: allow the request
OnStoreError(t) == DefaultInfo(t)

WindowExpired_at_boundary(row, t) == row.window_start <= t - WindowTicks

WindowExpired_while_under_limit(row, t) ==
  row.window_start < t - WindowTicks /\ row.requests < limit

\* rate_limit["window_start"] < now - timedelta(seconds=rate_limit_window)
WindowExpired(row, t) == row.window_start < t - WindowTicks

\* rate_limit["requests"] >= settings.rate_limit_requests
LimitExceeded(row) == row.requests >= limit

DeniedInfo_reset_from_now(row, t) ==
  [allowed |-> FALSE, limit |-> limit, remaining |-> 0,
   reset |-> ToEpochSeconds(t + WindowTicks)]

DeniedInfo(row, t) ==
  [allowed |-> FALSE, limit |-> limit, remaining |-> 0,
   reset |-> ToEpochSeconds(row.window_start + WindowTicks)]

new_count_not_incremented(row) == row.requests

new_count(row) == row.requests + 1

IncrementedInfo(row, t) ==
  [allowed |-> TRUE, limit |-> limit, remaining |-> limit - new_count(row),
   reset |-> ToEpochSeconds(row.window_start + WindowTicks)]

ResetWrite_keeps_window_start(tbl, key, row, t) ==
  update_rate_limit(tbl, key, 1, row.window_start)

\* db.update_rate_limit(key, 1, now)
ResetWrite(tbl, key, row, t) == update_rate_limit(tbl, key, 1, t)

IncrementWrite_sliding(tbl, key, row, t) ==
  update_rate_limit(tbl, key, new_count(row), t)

\* db.update_rate_limit(key, new_count, rate_limit["window_start"])
IncrementWrite(tbl, key, row, t) ==
  update_rate_limit(tbl, key, new_count(row), row.window_start)

\* what a call on the store may do: work, or raise (a faulty store may do
\* either; a method call on None always raises, and so does a statement on
\* tables that were never created)
Faults ==
  IF store = "none" \/ ~tables THEN {TRUE}
  ELSE IF store = "faulty" THEN {FALSE, TRUE} ELSE {FALSE}

\* History of the claim's "window": a call opens a new window when the key
\* has none or the previous one began more than a window length ago.  n counts
\* the calls of the window and granted those that were allowed (both stop
\* counting at limit + 1).
Bump(c) == IF c > limit THEN c ELSE c + 1

WinAfter(k, t, allowed) ==
  IF k \in DOMAIN win /\ t - win[k].start <= WindowTicks
  THEN [win EXCEPT ![k].n = Bump(@),
                   ![k].granted = IF allowed THEN Bump(@) ELSE @]
  ELSE [x \in DOMAIN win \cup {k} |->
          IF x = k
          THEN [start |-> t, n |-> 1, granted |-> IF allowed THEN 1 ELSE 0]
          ELSE win[x]]

\* settings = Settings(); now = datetime.now(); if db is None: return ...
CheckEnter(w, k) ==
  /\ call' = [call EXCEPT ![w] = [NoCall EXCEPT !.key = k, !.now = now]]
  /\ IF store = "none"
     THEN /\ result' = [result EXCEPT ![w] = DefaultInfo(now)]
          /\ win' = WinAfter(k, now, result'[w].allowed)
          /\ pc' = [pc EXCEPT ![w] = "rl_done"]
     ELSE /\ result' = result
          /\ win' = win
          /\ pc' = [pc EXCEPT ![w] = "rl_get"]
  /\ UNCHANGED <<now, cfgVars, procVars, opsVars, rate_limits, sessVars>>

\* check_rate_limit(db, key) called on its own
CheckBegin(w, k) ==
  /\ pc[w] = "idle"
  /\ CheckEnter(w, k)
  /\ UNCHANGED routeVars

\* rate_limit = db.get_rate_limit(key)
RlGet(w) ==
  /\ pc[w] = "rl_get"
  /\ \E fault \in Faults :
       IF fault
       THEN /\ call' = [call EXCEPT ![w].raised = TRUE]
            /\ result' = [result EXCEPT ![w] = OnStoreError(call[w].now)]
            /\ win' = WinAfter(call[w].key, call[w].now, result'[w].allowed)
            /\ pc' = [pc EXCEPT ![w] = "rl_done"]
       ELSE /\ call' = [call EXCEPT
                  ![w].rate_limit = get_rate_limit(rate_limits, call[w].key)]
            /\ result' = result
            /\ win' = win
            /\ pc' = [pc EXCEPT ![w] = "rl_decide"]
  /\ UNCHANGED <<now, cfgVars, procVars, opsVars, rate_limits, sessVars,
                 routeVars>>

\* The rest of the try block: one branch, at most one write, the return.
RlDecide(w) ==
  /\ pc[w] = "rl_decide"
  /\ LET k == call[w].key
         t == call[w].now
         row == call[w].rate_limit
     IN \E fault \in Faults :
          /\ IF row = NoneRow
             THEN \* INSERT; a key inserted meanwhile violates the primary key
                  IF fault \/ k \in DOMAIN rate_limits
                  THEN /\ rate_limits' = rate_limits
                       /\ call' = [call EXCEPT ![w].raised = TRUE]
                       /\ result' = [result EXCEPT ![w] = OnStoreError(t)]
                  ELSE /\ rate_limits' = create_rate_limit(rate_limits, k, t)
                       /\ call' = call
                       /\ result' = [result EXCEPT ![w] = DefaultInfo(t)]
             ELSE IF WindowExpired(row, t)
             THEN IF fault
                  THEN /\ rate_limits' = rate_limits
                       /\ call' = [call EXCEPT ![w].raised = TRUE]
                       /\ result' = [result EXCEPT ![w] = OnStoreError(t)]
                  ELSE /\ rate_limits' = ResetWrite(rate_limits, k, row, t)
                       /\ call' = call
                       /\ result' = [result EXCEPT ![w] = DefaultInfo(t)]
             ELSE IF LimitExceeded(row)
             THEN /\ rate_limits' = rate_limits
                  /\ call' = call
                  /\ result' = [result EXCEPT ![w] = DeniedInfo(row, t)]
             ELSE IF fault
                  THEN /\ rate_limits' = rate_limits
                       /\ call' = [call EXCEPT ![w].raised = TRUE]
                       /\ result' = [result EXCEPT ![w] = OnStoreError(t)]
                  ELSE /\ rate_limits' = IncrementWrite(rate_limits, k, row, t)
                       /\ call' = call
                       /\ result' = [result EXCEPT ![w] = IncrementedInfo(row, t)]
          /\ win' = WinAfter(k, t, result'[w].allowed)
  /\ pc' = [pc EXCEPT ![w] = "rl_done"]
  /\ UNCHANGED <<now, cfgVars, procVars, opsVars, sessVars, routeVars>>

\* the caller takes the tuple; the locals die
CheckReturn(w) ==
  /\ pc[w] = "rl_done"
  /\ req[w] = NoReq
  /\ pc' = [pc EXCEPT ![w] = "idle"]
  /\ call' = [call EXCEPT ![w] = NoCall]
  /\ result' = [result EXCEPT ![w] = NoResult]
  /\ UNCHANGED <<now, cfgVars, procVars, opsVars, rate_limits, win, sessVars,
                 routeVars>>

\* --------------------------------------------------------------- sessions
NoTouch == [session_id |-> "", ip_address |-> "", rowcount |-> -1,
            created_at |-> -1, raised |-> FALSE, helper |-> TRUE,
            escaped |-> FALSE]

update_session_activity_reraises(raised) == raised

\* session.py update_session_activity: "except Exception: pass"; whether an
\* error raised by the store leaves the helper
update_session_activity_escapes(raised) == FALSE

\* what reaches the caller: the helper's answer, or the store's own error
\* when the store method was called directly
Escapes(t, raised) ==
  IF t.helper THEN update_session_activity_escapes(raised) ELSE raised

\* one more call for session_id has returned normally
Touched(h, session_id) ==
  [x \in DOMAIN h \cup {session_id} |->
     IF x = session_id
     THEN IF session_id \in DOMAIN h THEN h[session_id] + 1 ELSE 1
     ELSE h[x]]

update_session_row_new_created_at(row, t) ==
  [row EXCEPT !.created_at = t, !.last_activity = t, !.request_count = @ + 1]

update_session_row_keeps_count(row, t) == [row EXCEPT !.last_activity = t]

\* UPDATE sessions SET last_activity = ?, request_count = request_count + 1
\* WHERE session_id = ?
update_session_row(row, t) ==
  [row EXCEPT !.last_activity = t, !.request_count = @ + 1]

create_session_swapped(tbl, session_id, created_at, last_activity, ip_address) ==
  [x \in DOMAIN tbl \cup {session_id} |->
     IF x = session_id
     THEN [created_at |-> last_activity, last_activity |-> created_at,
           request_count |-> 1, ip_address |-> ip_address]
     ELSE tbl[x]]

\* INSERT INTO sessions (...) VALUES (?, created_at, last_activity, 1, ?)
create_session(tbl, session_id, created_at, last_activity, ip_address) ==
  [x \in DOMAIN tbl \cup {session_id} |->
     IF x = session_id
     THEN [created_at |-> created_at, last_activity |-> last_activity,
           request_count |-> 1, ip_address |-> ip_address]
     ELSE tbl[x]]

\* the helper update_session_activity(db, session_id, ip_address) is entered
TouchBegin(w, sid, ip) ==
  /\ pc[w] = "idle"
  /\ sid \in DOMAIN sessions => sessions[sid].request_count < MaxCount
  /\ touch' = [touch EXCEPT ![w] =
                 [NoTouch EXCEPT !.session_id = sid, !.ip_address = ip]]
  /\ pc' = [pc EXCEPT ![w] = "ua_update"]
  /\ UNCHANGED <<now, cfgVars, procVars, opsVars, rlVars, sessions, touched,
                 routeVars>>

\* db.update_session_activity: the UPDATE, and the commit when a row matched
UaUpdate(w) ==
  /\ pc[w] = "ua_update"
  /\ LET sid == touch[w].session_id
     IN \E fault \in Faults :
          IF fault
          THEN /\ touch' = [touch EXCEPT
                               ![w].raised = TRUE,
                               ![w].escaped = Escapes(touch[w], TRUE)]
               /\ UNCHANGED <<sessions, touched>>
               /\ pc' = [pc EXCEPT ![w] = "ua_done"]
          ELSE IF sid \in DOMAIN sessions
          THEN /\ sessions' = [sessions EXCEPT
                                 ![sid] = update_session_row(@, now)]
               /\ touched' = Touched(touched, sid)
               /\ touch' = [touch EXCEPT ![w].rowcount = 1]
               /\ pc' = [pc EXCEPT ![w] = "ua_done"]
          ELSE /\ UNCHANGED <<sessions, touched>>
               /\ touch' = [touch EXCEPT ![w].rowcount = 0]
               /\ pc' = [pc EXCEPT ![w] = "ua_create"]
  /\ UNCHANGED <<now, cfgVars, procVars, opsVars, rlVars, routeVars>>

\* create_session: the first datetime.now() of the VALUES tuple
UaCreate(w) ==
  /\ pc[w] = "ua_create"
  /\ touch' = [touch EXCEPT ![w].created_at = now]
  /\ pc' = [pc EXCEPT ![w] = "ua_insert"]
  /\ UNCHANGED <<now, cfgVars, procVars, opsVars, rlVars, sessions, touched,
                 routeVars>>

\* create_session: the second datetime.now(), the INSERT and the commit; an
\* id inserted meanwhile violates the primary key, and the helper's
\* except Exception swallows what the store raises
UaInsert(w) ==
  /\ pc[w] = "ua_insert"
  /\ LET sid == touch[w].session_id
     IN \E fault \in Faults :
          IF fault \/ sid \in DOMAIN sessions
          THEN /\ touch' = [touch EXCEPT
                               ![w].raised = TRUE,
                               ![w].escaped = Escapes(touch[w], TRUE)]
               /\ UNCHANGED <<sessions, touched>>
          ELSE /\ touch' = touch
               /\ sessions' = create_session(sessions, sid, touch[w].created_at,
                                             now, touch[w].ip_address)
               /\ touched' = Touched(touched, sid)
  /\ pc' = [pc EXCEPT ![w] = "ua_done"]
  /\ UNCHANGED <<now, cfgVars, procVars, opsVars, rlVars, routeVars>>

TouchReturn(w) ==
  /\ pc[w] = "ua_done"
  /\ req[w] = NoReq
  /\ touch' = [touch EXCEPT ![w] = NoTouch]
  /\ pc' = [pc EXCEPT ![w] = "idle"]
  /\ UNCHANGED <<now, cfgVars, procVars, opsVars, rlVars, sessions, touched,
                 routeVars>>

\* ----------------------------------------------------------------- routes
Routes == {"correct", "plot", "upload", "manual", "get", "get_specific",
           "delete", "health"}

\* the key each route hands to check_rate_limit
RateLimitKey(route, session_id, ip_address) ==
  CASE route = "correct" -> <<"calculate", session_id>>
    [] route = "plot" -> <<"plot", session_id>>
    [] route = "upload" -> <<"upload", ip_address>>
    [] route = "manual" -> <<"manual", session_id>>
    [] route = "get" -> <<"get", session_id>>
    [] route = "get_specific" -> <<"get_specific", session_id>>
    [] route = "delete" -> <<"delete", session_id>>
    [] route = "health" -> <<"health", ip_address>>

Endpoint(route) ==
  CASE route = "correct" -> "/api/correct"
    [] route = "plot" -> "/api/plot"
    [] route = "upload" -> "/api/upload-materials"
    [] route = "manual" -> "/api/manual-material"
    [] route = "get" -> "/api/materials"
    [] route = "get_specific" -> "/api/materials/{material_name}"
    [] route = "delete" -> "/api/materials/{material_name}"
    [] route = "health" -> "/health"

\* bool(x) of a Python tuple: false only for the empty tuple
Truthy(tuple) == Len(tuple) # 0

\* "allowed, rate_info = check_rate_limit(...)" followed by "if not allowed"
Unpacks(route) == route \in {"get", "health"}

\* the routes' rate-limit test: "if not allowed" where the tuple is unpacked,
\* "if not check_rate_limit(...)" on the returned tuple elsewhere
RouteRejects(route, res) ==
  IF Unpacks(route) THEN ~res.allowed ELSE ~Truthy(<<res.allowed, res>>)

\* how the code after the rate-limit test can end
Outcomes(route) ==
  CASE route \in {"correct", "plot", "get_specific", "delete"} ->
         {"ok", "http_error", "error"}
    [] route = "upload" -> {"bad_file", "ok", "yaml_error", "error"}
    [] route \in {"manual", "get"} -> {"ok", "error"}
    [] route = "health" -> {"ok"}

\* the status the client sees for an outcome that is not "ok"
FailureStatus(route, outcome) ==
  CASE outcome = "http_error" -> 404
    [] outcome \in {"bad_file", "yaml_error"} -> 400
    [] outcome = "error" -> 500

log_usage_replaces_last(logs, r, success, error_message, raises) ==
  IF raises THEN logs
  ELSE IF logs = <<>>
  THEN <<[session_id |-> r.session_id, endpoint |-> Endpoint(r.route),
          duration_ms |-> ((now - r.start_time) * 1000) \div TicksPerSec,
          success |-> success, error_message |-> error_message,
          timestamp |-> now, ip_address |-> r.ip_address]>>
  ELSE [logs EXCEPT ![Len(logs)].success = success,
                    ![Len(logs)].error_message = error_message,
                    ![Len(logs)].timestamp = now]

\* session.py log_usage -> db.log_usage: one INSERT; a raise is swallowed
log_usage(logs, r, success, error_message, raises) ==
  IF raises THEN logs
  ELSE Append(logs, [session_id |-> r.session_id, endpoint |-> Endpoint(r.route),
                     duration_ms |-> ((now - r.start_time) * 1000) \div TicksPerSec,
                     success |-> success, error_message |-> error_message,
                     timestamp |-> now, ip_address |-> r.ip_address])

NoLog == [session_id |-> "", route |-> "", ip_address |-> "", start_time |-> -1,
          success |-> FALSE, error_message |-> "", before |-> <<>>,
          raised |-> FALSE, escaped |-> FALSE]

NoMaint == [op |-> "", ttl_seconds |-> 0, now |-> -1, tables |-> FALSE,
            sessions |-> <<>>, rate_limits |-> <<>>, usage_logs |-> <<>>,
            error |-> <<>>, raised |-> FALSE]

\* a request enters a route other than /health: start_time, the session id
\* and address, then check_rate_limit up to its first store call
RouteBegin(w, route, sid, ip) ==
  /\ pc[w] = "idle"
  /\ route # "health"
  /\ served < MaxRequests
  /\ served' = served + 1
  /\ req' = [req EXCEPT ![w] = [NoReq EXCEPT !.route = route,
                                  !.session_id = sid, !.ip_address = ip,
                                  !.start_time = now,
                                  !.logs_before = Len(usage_logs),
                                  !.trace = <<"check">>]]
  /\ usage_logs' = usage_logs
  /\ CheckEnter(w, RateLimitKey(route, sid, ip))

\* a request enters /health
HealthBegin(w, sid, ip) ==
  /\ pc[w] = "idle"
  /\ served < MaxRequests
  /\ served' = served + 1
  /\ req' = [req EXCEPT ![w] = [NoReq EXCEPT !.route = "health",
                                  !.session_id = sid, !.ip_address = ip,
                                  !.start_time = now,
                                  !.logs_before = Len(usage_logs)]]
  /\ pc' = [pc EXCEPT ![w] = "hc_count"]
  /\ UNCHANGED <<now, cfgVars, procVars, opsVars, rlVars, sessVars, usage_logs>>

\* /health: db_status = "healthy", or f"error: {str(e)}" in the except clause
health_db_status(fault) == IF fault THEN "error" ELSE "healthy"

health_session_count_stale(fault, tbl) == get_session_count(tbl)

\* /health: session_count = db.get_session_count(), or 0 in the except clause
health_session_count(fault, tbl) ==
  IF fault THEN 0 ELSE get_session_count(tbl)

\* /health: db.get_session_count() under try/except, then check_rate_limit
HealthCount(w) ==
  /\ pc[w] = "hc_count"
  /\ \E fault \in Faults :
       req' = [req EXCEPT
                 ![w].count_raised = fault,
                 ![w].trace = Append(@, "check"),
                 ![w].db_status = health_db_status(fault),
                 ![w].session_count = health_session_count(fault, sessions)]
  /\ CheckEnter(w, RateLimitKey("health", req[w].session_id, req[w].ip_address))
  /\ UNCHANGED <<usage_logs, served>>

\* the rate-limit test on what check_rate_limit returned
RouteGate(w) ==
  /\ pc[w] = "rl_done"
  /\ req[w] # NoReq
  /\ IF RouteRejects(req[w].route, result[w])
     THEN /\ req' = [req EXCEPT ![w].status = 429]
          /\ pc' = [pc EXCEPT ![w] = "rt_resp"]
     ELSE /\ req' = req
          /\ pc' = [pc EXCEPT ![w] = "rt_handler"]
  /\ UNCHANGED <<now, cfgVars, procVars, opsVars, rlVars, sessVars,
                 usage_logs, served>>

\* the business handler; on success the route goes on to touch the session
\* (not /health, which answers at once); an HTTPException leaves through
\* "except HTTPException: raise", anything else through the logging except
RouteHandler(w) ==
  /\ pc[w] = "rt_handler"
  /\ LET r == req[w]
     IN \E outcome \in Outcomes(r.route) :
          /\ req' = [req EXCEPT
                       ![w].handler_ran = TRUE,
                       ![w].trace =
                          IF outcome = "ok" /\ r.route # "health"
                          THEN @ \o <<"handler", "touch">>
                          ELSE Append(@, "handler"),
                       ![w].error = IF outcome = "ok" THEN "" ELSE outcome,
                       ![w].status = IF outcome = "ok"
                                     THEN IF r.route = "health" THEN 200 ELSE 0
                                     ELSE FailureStatus(r.route, outcome)]
          /\ IF outcome = "ok" /\ r.route # "health"
             THEN /\ touch' = [touch EXCEPT ![w] =
                                 [NoTouch EXCEPT !.session_id = r.session_id,
                                                 !.ip_address = r.ip_address]]
                  /\ pc' = [pc EXCEPT ![w] = "ua_update"]
                  /\ touched' = touched
             ELSE /\ UNCHANGED <<touch, touched>>
                  /\ pc' = [pc EXCEPT ![w] =
                              IF outcome \in {"yaml_error", "error"}
                              THEN "rt_fail" ELSE "rt_resp"]
  /\ UNCHANGED <<now, cfgVars, procVars, opsVars, rlVars, sessions,
                 usage_logs, served>>

\* log_usage(..., True, ip_address) after the touch, then the response
RouteLogSuccess(w) ==
  /\ pc[w] = "ua_done"
  /\ req[w] # NoReq
  /\ \E fault \in Faults :
       usage_logs' = log_usage(usage_logs, req[w], TRUE, "", fault)
  /\ req' = [req EXCEPT ![w].status = 200, ![w].trace = Append(@, "record")]
  /\ touch' = [touch EXCEPT ![w] = NoTouch]
  /\ pc' = [pc EXCEPT ![w] = "rt_resp"]
  /\ UNCHANGED <<now, cfgVars, procVars, opsVars, rlVars, sessions, touched,
                 served>>

\* log_usage(..., False, ip_address, str(e)) in the except clause
RouteLogFailure(w) ==
  /\ pc[w] = "rt_fail"
  /\ \E fault \in Faults :
       usage_logs' = log_usage(usage_logs, req[w], FALSE, req[w].error, fault)
  /\ req' = [req EXCEPT ![w].trace = Append(@, "record")]
  /\ pc' = [pc EXCEPT ![w] = "rt_resp"]
  /\ UNCHANGED <<now, cfgVars, procVars, opsVars, rlVars, sessVars, served>>

\* the response leaves; the handler's locals die
RouteRespond(w) ==
  /\ pc[w] = "rt_resp"
  /\ req' = [req EXCEPT ![w] = NoReq]
  /\ call' = [call EXCEPT ![w] = NoCall]
  /\ result' = [result EXCEPT ![w] = NoResult]
  /\ pc' = [pc EXCEPT ![w] = "idle"]
  /\ UNCHANGED <<now, cfgVars, procVars, opsVars, rate_limits, win, sessVars,
                 usage_logs, served>>

\* ------------------------------------------------------ the helpers alone
\* request.cookies.get("session_id"): None when the cookie is missing
NoCookie == "<no cookie>"
Cookies == {NoCookie, "", "abc"}

\* "not session_id"
Falsy(cookie) == cookie \in {NoCookie, ""}

\* str(uuid.uuid4()): successive draws of 122 random bits, taken to be
\* pairwise distinct
Uuid4Stream == <<"uuid-1", "uuid-2", "uuid-3", "uuid-4", "uuid-5">>

get_session_id_always_new(cookie, drawn) == Uuid4Stream[drawn + 1]

\* get_session_id(request), drawn being the number of uuids handed out so far
get_session_id(cookie, drawn) ==
  IF Falsy(cookie) THEN Uuid4Stream[drawn + 1] ELSE cookie

\* one call of get_session_id
GetSessionId(w, cookie) ==
  /\ pc[w] = "idle"
  /\ Len(resolved) < MaxCalls
  /\ resolved' = Append(resolved, <<cookie, get_session_id(cookie, uuids)>>)
  /\ uuids' = IF Falsy(cookie) THEN uuids + 1 ELSE uuids
  /\ UNCHANGED <<now, cfgVars, procVars, rlVars, pc, sessVars, routeVars,
                 logging,
                 tables, maint>>

\* the ids get_session_id has returned so far
ResolvedIds == {resolved[i][2] : i \in 1..Len(resolved)}

\* db.create_session(session_id, ip_address) called on the store itself
DbCreateBegin(w, sid, ip) ==
  /\ pc[w] = "idle"
  /\ touch' = [touch EXCEPT ![w] =
                 [NoTouch EXCEPT !.session_id = sid, !.ip_address = ip,
                                 !.helper = FALSE]]
  /\ pc' = [pc EXCEPT ![w] = "ua_create"]
  /\ UNCHANGED <<now, cfgVars, procVars, opsVars, rlVars, sessions, touched,
                 routeVars>>

log_usage_reraises(raised) == raised

\* session.py log_usage: "except Exception: pass"; whether an error raised by
\* the store leaves the helper
log_usage_escapes(raised) == FALSE

\* log_usage(db, session_id, endpoint, duration_ms, success, ip_address,
\* error_message) is entered
LogBegin(w, sid, route, success, ip, error_message) ==
  /\ pc[w] = "idle"
  /\ Len(usage_logs) < MaxLogs
  /\ logging' = [logging EXCEPT ![w] =
                   [NoLog EXCEPT !.session_id = sid, !.route = route,
                                 !.ip_address = ip, !.start_time = now,
                                 !.success = success,
                                 !.error_message = error_message,
                                 !.before = usage_logs]]
  /\ pc' = [pc EXCEPT ![w] = "lu_insert"]
  /\ UNCHANGED <<now, cfgVars, procVars, rlVars, sessVars, routeVars, tables,
                 maint,
                 uuids, resolved>>

\* db.log_usage(...): the INSERT and the commit, inside the helper's try
LuInsert(w) ==
  /\ pc[w] = "lu_insert"
  /\ \E fault \in Faults :
       /\ usage_logs' = log_usage(usage_logs, logging[w], logging[w].success,
                                  logging[w].error_message, fault)
       /\ logging' = [logging EXCEPT ![w].raised = fault,
                                     ![w].escaped = log_usage_escapes(fault)]
  /\ pc' = [pc EXCEPT ![w] = "lu_done"]
  /\ UNCHANGED <<now, cfgVars, procVars, rlVars, sessVars, req, served,
                 tables, maint,
                 uuids, resolved>>

LogReturn(w) ==
  /\ pc[w] = "lu_done"
  /\ logging' = [logging EXCEPT ![w] = NoLog]
  /\ pc' = [pc EXCEPT ![w] = "idle"]
  /\ UNCHANGED <<now, cfgVars, procVars, rlVars, sessVars, routeVars, tables,
                 maint,
                 uuids, resolved>>

\* ------------------------------------------------------------ maintenance
\* a datetime bound as a statement parameter is stored as its ISO text,
\* "YYYY-MM-DD HH:MM:SS" followed by ".ffffff" unless the fraction is zero
adapt_datetime(t) ==
  IF t % TicksPerSec = 0 THEN <<t \div TicksPerSec>>
  ELSE <<t \div TicksPerSec, t % TicksPerSec>>

\* the order of two such texts: field by field, a proper prefix first
TextLess(a, b) ==
  \/ a[1] < b[1]
  \/ /\ a[1] = b[1]
     /\ Len(b) = 2
     /\ (Len(a) = 1 \/ a[2] < b[2])

\* cutoff_time = datetime.now() - timedelta(seconds=ttl_seconds)
cutoff_time(t, ttl_seconds) == t - ttl_seconds * TicksPerSec

Expired_at_or_before(column, cutoff) ==
  ~TextLess(adapt_datetime(cutoff), adapt_datetime(column))

\* "WHERE <column> < ?" with the cutoff bound as the parameter
Expired(column, cutoff) ==
  TextLess(adapt_datetime(column), adapt_datetime(cutoff))

\* DELETE FROM sessions WHERE last_activity < ?
delete_sessions(tbl, cutoff) ==
  [x \in {y \in DOMAIN tbl : ~Expired(tbl[y].last_activity, cutoff)}
     |-> tbl[x]]

\* DELETE FROM rate_limits WHERE window_start < ?
delete_rate_limits(tbl, cutoff) ==
  [x \in {y \in DOMAIN tbl : ~Expired(tbl[y].window_start, cutoff)}
     |-> tbl[x]]

\* DELETE FROM usage_logs WHERE timestamp < ?
delete_usage_logs(logs, cutoff) ==
  SelectSeq(logs, LAMBDA row : ~Expired(row.timestamp, cutoff))

\* a history table cut down to the keys that still have a row
Restrict(h, keys) == [x \in DOMAIN h \cap keys |-> h[x]]

\* the tables as a maintenance call found them
Snapshot(w, op) ==
  [NoMaint EXCEPT !.op = op, !.now = now, !.tables = tables,
                  !.sessions = sessions, !.rate_limits = rate_limits,
                  !.usage_logs = usage_logs]

\* db.cleanup_expired_sessions(ttl_seconds): three DELETEs and one commit
CleanupExpired(w, ttl_seconds) ==
  /\ pc[w] = "idle"
  /\ \E fault \in Faults :
       LET cutoff == cutoff_time(now, ttl_seconds)
           snap == [Snapshot(w, "cleanup_expired_sessions")
                      EXCEPT !.ttl_seconds = ttl_seconds, !.raised = fault]
       IN /\ maint' = [maint EXCEPT ![w] = snap]
          /\ IF fault
             THEN UNCHANGED <<sessions, touched, rate_limits, win, usage_logs>>
             ELSE /\ sessions' = delete_sessions(sessions, cutoff)
                  /\ touched' = Restrict(touched, DOMAIN sessions')
                  /\ rate_limits' = delete_rate_limits(rate_limits, cutoff)
                  /\ win' = Restrict(win, DOMAIN rate_limits')
                  /\ usage_logs' = delete_usage_logs(usage_logs, cutoff)
  /\ pc' = [pc EXCEPT ![w] = "maint_done"]
  /\ UNCHANGED <<now, cfgVars, procVars, call, result, touch, req, served,
                 logging,
                 tables, uuids, resolved>>

delete_all_keeps(tbl) == tbl

\* DELETE FROM <table>
delete_all(tbl) == <<>>

\* db.clear_all_data(): DELETE FROM each table and one commit
ClearAllData(w) ==
  /\ pc[w] = "idle"
  /\ \E fault \in Faults :
       /\ maint' = [maint EXCEPT ![w] =
                      [Snapshot(w, "clear_all_data") EXCEPT !.raised = fault]]
       /\ IF fault
          THEN UNCHANGED <<sessions, touched, rate_limits, win, usage_logs>>
          ELSE /\ sessions' = delete_all(sessions)
               /\ touched' = Restrict(touched, DOMAIN sessions')
               /\ rate_limits' = delete_all(rate_limits)
               /\ win' = Restrict(win, DOMAIN rate_limits')
               /\ usage_logs' = delete_all(usage_logs)
  /\ pc' = [pc EXCEPT ![w] = "maint_done"]
  /\ UNCHANGED <<now, cfgVars, procVars, call, result, touch, req, served,
                 logging,
                 tables, uuids, resolved>>

\* str(e) of the errors create_tables can meet, word by word
NoError == <<>>
ErrAlreadyExists == <<"table", "sessions", "already", "exists">>
ErrUnableToOpen == <<"unable", "to", "open", "database", "file">>
ErrNoSuchFile == <<"No", "such", "file", "or", "directory">>

\* sub in msg
Contains(msg, sub) ==
  \E i \in 1..(Len(msg) - Len(sub) + 1) :
    SubSeq(msg, i, i + Len(sub) - 1) = sub

create_tables_reraises_all(error) == error # NoError

\* except Exception as e: if "already exists" not in str(e): raise e
create_tables_reraises(error) ==
  error # NoError /\ ~Contains(error, <<"already", "exists">>)

\* how reading and running the migration script can end: the script's text
\* is not part of the sources, so on an existing schema it may pass
\* (CREATE TABLE IF NOT EXISTS) or stop with "already exists"; a faulty
\* store may also fail to open the database file or the script
ScriptOutcomes ==
  (IF tables THEN {NoError, ErrAlreadyExists} ELSE {NoError})
    \cup (IF store = "faulty" THEN {ErrUnableToOpen, ErrNoSuchFile} ELSE {})

\* db.create_tables()
CreateTables(w) ==
  /\ pc[w] = "idle"
  /\ store # "none"
  /\ \E error \in ScriptOutcomes :
       /\ maint' = [maint EXCEPT ![w] =
                      [Snapshot(w, "create_tables") EXCEPT
                         !.error = error,
                         !.raised = create_tables_reraises(error)]]
       /\ tables' = IF error = NoError THEN TRUE ELSE tables
  /\ pc' = [pc EXCEPT ![w] = "maint_done"]
  /\ UNCHANGED <<now, cfgVars, procVars, rlVars, sessVars, routeVars,
                 logging, uuids,
                 resolved>>

\* the maintenance call returns (or its error reaches the caller)
MaintReturn(w) ==
  /\ pc[w] = "maint_done"
  /\ maint' = [maint EXCEPT ![w] = NoMaint]
  /\ pc' = [pc EXCEPT ![w] = "idle"]
  /\ UNCHANGED <<now, cfgVars, procVars, rlVars, sessVars, routeVars,
                 logging, tables,
                 uuids, resolved>>

Tick ==
  /\ now < MaxTime
  /\ now' = now + 1
  /\ UNCHANGED <<cfgVars, procVars, opsVars, rlVars, pc, sessVars, routeVars>>

\* the clock advancing while every call still falls in the window opened at 0
TickWithinWindow ==
  /\ now < WindowTicks
  /\ Tick

\* ------------------------------------------------------------ connections
\* self._get_connection(): if the calling thread has no connection in
\* self._local, sqlite3.connect opens one and stores it there
get_connection(open, w) == open \cup {w}

\* close(): if hasattr(self._local, "connection"), closes it and deletes the
\* attribute; self._local is the calling thread's view
close(open, w) == open \ {w}

NoHandles == [next |-> 1, of |-> [w \in Workers |-> 0], opener |-> <<>>,
              users |-> <<>>]

local_connection_shared(h, w) ==
  IF \E x \in Workers : h.of[x] # 0
  THEN h.of[CHOOSE x \in Workers : h.of[x] # 0]
  ELSE 0

\* self._local.connection as thread w sees it (0: it has no such attribute);
\* self._local is a threading.local()
local_connection(h, w) == h.of[w]

\* _get_connection() in thread w: the connection it finds in self._local,
\* or a new one, which it stores there; the caller then uses it
use_connection(h, w) ==
  LET c == local_connection(h, w)
  IN IF c = 0
     THEN [next |-> h.next + 1,
           of |-> [h.of EXCEPT ![w] = h.next],
           opener |-> [i \in DOMAIN h.opener \cup {h.next} |->
                         IF i = h.next THEN w ELSE h.opener[i]],
           users |-> [i \in DOMAIN h.users \cup {h.next} |->
                        IF i = h.next THEN {w} ELSE h.users[i]]]
     ELSE [h EXCEPT !.users[c] = @ \cup {w}]

\* delattr(self._local, "connection") in thread w
forget_connection(h, w) == [h EXCEPT !.of[w] = 0]

\* a store call of thread w begins: self._get_connection()
GetConnection(w) ==
  /\ pc[w] = "idle"
  /\ store # "none"
  /\ local_connection(handles, w) = 0 => handles.next <= MaxConns
  /\ conns' = get_connection(conns, w)
  /\ handles' = use_connection(handles, w)
  /\ UNCHANGED <<now, cfgVars, user_materials, seen, life, janitor, opsVars,
                 rlVars, pc, sessVars,
                 routeVars>>

\* thread w calls db.close()
Close(w) ==
  /\ pc[w] = "idle"
  /\ conns' = close(conns, w)
  /\ handles' = forget_connection(handles, w)
  /\ UNCHANGED <<now, cfgVars, user_materials, seen, life, janitor, opsVars,
                 rlVars, pc, sessVars,
                 routeVars>>

\* ------------------------------------------------- the application process
\* The lifespan handler and the background cleanup task of the application
\* are not among the sources (src/tests/test_main.py imports `lifespan` and
\* patches `app.main.db`); they are written here as the specification
\* describes them (section 4.5, section 5), around the store's own calls.

\* the thread that runs startup, shutdown and the background loop, and the
\* thread that serves requests
MainThread == "w2"
RequestThread == "w1"

NoLife == [phase |-> "none", lifetime |-> 0, create_calls |-> 0,
           clear_calls |-> 0, close_calls |-> 0, inherited |-> 0,
           stale |-> FALSE]
NoJanitor == [state |-> "none", ttl |-> 0, slept_from |-> -1, passes |-> 0,
              cancel |-> FALSE, failed |-> FALSE]

\* rows in the three tables
RowCount ==
  Cardinality(DOMAIN sessions) + Cardinality(DOMAIN rate_limits)
    + Len(usage_logs)

startup_next_skips_clear(phase, raised) ==
  IF raised THEN "failed" ELSE "serving"

\* startup: createTables(), then clearAllData(), then traffic is accepted;
\* an error of either call ends the startup
startup_next(phase, raised) ==
  IF raised THEN "failed"
  ELSE IF phase = "boot" THEN "created" ELSE "serving"

\* the loop has slept databaseTtlSeconds since it last went to sleep
sleep_elapsed(j, t) == t >= j.slept_from + j.ttl * TicksPerSec

janitor_may_wake_ignores_cancel(j, t) == sleep_elapsed(j, t)

\* the loop leaves its sleep for a cleanup pass only when the sleep is over
\* and no cancellation has been signalled
janitor_may_wake(j, t) == ~j.cancel /\ sleep_elapsed(j, t)

janitor_after_pass_swallows(raised) == "sleep"

\* a pass that raises ends the loop; otherwise the loop sleeps again
janitor_after_pass(raised) == IF raised THEN "dead" ELSE "sleep"

\* a process starts; the database file is the one the last process left
LifeStart ==
  /\ life.phase \in {"none", "stopped"}
  /\ life.lifetime < MaxLifetimes
  /\ \A w \in Workers : pc[w] = "idle"
  /\ life' = [NoLife EXCEPT !.phase = "boot",
                            !.lifetime = life.lifetime + 1,
                            !.inherited = RowCount,
                            !.stale = RowCount > 0]
  /\ conns' = {}
  /\ handles' = [handles EXCEPT !.of = [w \in Workers |-> 0]]
  /\ janitor' = NoJanitor
  /\ UNCHANGED <<now, cfgVars, user_materials, seen, opsVars, rlVars, pc,
                 sessVars, routeVars>>

\* startup calls db.create_tables()
LifeCreateTables == life.phase = "boot" /\ CreateTables(MainThread)

\* startup calls db.clear_all_data()
LifeClearAllData == life.phase = "created" /\ ClearAllData(MainThread)

\* a startup call returns; after the last one the background loop is started
\* (it begins with a sleep) and requests are accepted
LifeAfterCall ==
  /\ life.phase \in {"boot", "created"}
  /\ pc[MainThread] = "maint_done"
  /\ LET m == maint[MainThread]
         next == startup_next(life.phase, m.raised)
     IN /\ life' = [life EXCEPT
                      !.phase = next,
                      !.create_calls =
                         IF m.op = "create_tables" THEN @ + 1 ELSE @,
                      !.clear_calls =
                         IF m.op = "clear_all_data" THEN @ + 1 ELSE @,
                      !.stale =
                         IF m.op = "clear_all_data" /\ ~m.raised
                         THEN RowCount > 0 ELSE @]
        /\ \E ttl \in 1..MaxTtl :
             janitor' = IF next = "serving"
                        THEN [NoJanitor EXCEPT !.state = "sleep",
                                               !.ttl = ttl,
                                               !.slept_from = now]
                        ELSE janitor
  /\ maint' = [maint EXCEPT ![MainThread] = NoMaint]
  /\ pc' = [pc EXCEPT ![MainThread] = "idle"]
  /\ UNCHANGED <<now, cfgVars, user_materials, seen, conns, handles, rlVars,
                 sessVars, routeVars, logging,
                 tables, uuids, resolved>>

\* the loop wakes and calls db.cleanup_expired_sessions(databaseTtlSeconds)
JanitorPass ==
  /\ janitor.state = "sleep"
  /\ janitor_may_wake(janitor, now)
  /\ CleanupExpired(MainThread, janitor.ttl)

\* the cleanup pass returns or raises
JanitorAfter ==
  /\ janitor.state = "sleep"
  /\ pc[MainThread] = "maint_done"
  /\ janitor' = [janitor EXCEPT
                   !.state = janitor_after_pass(maint[MainThread].raised),
                   !.passes = @ + 1,
                   !.slept_from = now,
                   !.failed = maint[MainThread].raised]
  /\ maint' = [maint EXCEPT ![MainThread] = NoMaint]
  /\ pc' = [pc EXCEPT ![MainThread] = "idle"]
  /\ UNCHANGED <<now, cfgVars, user_materials, seen, conns, handles, life,
                 rlVars, sessVars, routeVars,
                 logging, tables, uuids, resolved>>

\* shutdown begins: the loop is told to stop
LifeCancel ==
  /\ life.phase = "serving"
  /\ pc[RequestThread] = "idle"
  /\ life' = [life EXCEPT !.phase = "stopping"]
  /\ janitor' = [janitor EXCEPT !.cancel = TRUE]
  /\ UNCHANGED <<now, cfgVars, user_materials, seen, conns, handles, opsVars,
                 rlVars, pc, sessVars,
                 routeVars>>

\* the sleeping loop observes the cancellation and ends
JanitorCancelled ==
  /\ janitor.state = "sleep"
  /\ janitor.cancel
  /\ pc[MainThread] = "idle"
  /\ janitor' = [janitor EXCEPT !.state = "cancelled"]
  /\ UNCHANGED <<now, cfgVars, user_materials, seen, conns, handles, life,
                 opsVars, rlVars, pc, sessVars,
                 routeVars>>

\* shutdown ends: db.close() on the main thread
LifeClose ==
  /\ life.phase = "stopping"
  /\ janitor.state \in {"cancelled", "dead"}
  /\ pc[MainThread] = "idle"
  /\ conns' = close(conns, MainThread)
  /\ handles' = forget_connection(handles, MainThread)
  /\ life' = [life EXCEPT !.phase = "stopped", !.close_calls = @ + 1]
  /\ UNCHANGED <<now, cfgVars, user_materials, seen, janitor, opsVars,
                 rlVars, pc, sessVars,
                 routeVars>>

\* ------------------------------------------------------ the materials map
\* if len(user_materials) > 1000
KeepLimit == 1000
\* list(user_materials.keys())[:100]
EvictCount == 100

MaterialNames == {"steel", "alu"}
NoMaterials == <<>>
NoSeen == [session_id |-> "", materials |-> NoMaterials]

\* session_id in user_materials
HasKey(um, session_id) == \E i \in 1..Len(um) : um[i].key = session_id

\* where the dict holds session_id
IndexOf(um, session_id) ==
  CHOOSE i \in 1..Len(um) : um[i].key = session_id

get_user_materials_any_session(um, session_id) ==
  IF um = <<>> THEN NoMaterials ELSE um[1].materials

\* user_materials.get(session_id, {})
get_user_materials(um, session_id) ==
  IF HasKey(um, session_id) THEN um[IndexOf(um, session_id)].materials
  ELSE NoMaterials

\* user_materials[session_id] = materials: a known key keeps its place in
\* the dict, a new key goes to the end
save_user_materials(um, session_id, materials) ==
  IF HasKey(um, session_id)
  THEN [um EXCEPT ![IndexOf(um, session_id)].materials = materials]
  ELSE Append(um, [key |-> session_id, materials |-> materials])

\* session.py cleanup_expired_sessions(): with more than 1000 keys, delete
\* the keys list(user_materials.keys())[:100]
cleanup_expired_sessions(um) ==
  IF Len(um) > KeepLimit THEN SubSeq(um, EvictCount + 1, Len(um)) ELSE um

\* the materials a session supplies; owner is the session that supplied them
Supplied(session_id, names) == [n \in names |-> [owner |-> session_id]]

\* POST /api/upload-materials: save_user_materials(session_id, <the file's>)
UploadMaterials(session_id, names) ==
  /\ user_materials' =
       save_user_materials(user_materials, session_id,
                           Supplied(session_id, names))
  /\ UNCHANGED <<now, cfgVars, conns, handles, life, janitor, seen, opsVars,
                 rlVars, pc, sessVars, routeVars>>

\* POST /api/add-manual-material: get, user_materials[name] = {...}, save
AddManualMaterial(session_id, name) ==
  /\ LET mine == get_user_materials(user_materials, session_id)
         more == [n \in DOMAIN mine \cup {name} |->
                    IF n = name THEN [owner |-> session_id] ELSE mine[n]]
     IN user_materials' =
          save_user_materials(user_materials, session_id, more)
  /\ UNCHANGED <<now, cfgVars, conns, handles, life, janitor, seen, opsVars,
                 rlVars, pc, sessVars, routeVars>>

\* DELETE /api/materials/{name}: get, 404 if absent, del, save
DeleteCustomMaterial(session_id, name) ==
  /\ LET mine == get_user_materials(user_materials, session_id)
         less == [n \in DOMAIN mine \ {name} |-> mine[n]]
     IN /\ name \in DOMAIN mine
        /\ user_materials' =
             save_user_materials(user_materials, session_id, less)
  /\ UNCHANGED <<now, cfgVars, conns, handles, life, janitor, seen, opsVars,
                 rlVars, pc, sessVars, routeVars>>

\* a handler reads: user_materials = get_user_materials(session_id)
ReadMaterials(session_id) ==
  /\ seen' = [session_id |-> session_id,
              materials |-> get_user_materials(user_materials, session_id)]
  /\ UNCHANGED <<now, cfgVars, conns, handles, life, janitor, user_materials,
                 opsVars, rlVars, pc, sessVars, routeVars>>

\* a session with a new id (the ids are numbered as uuid4 hands them out)
\* saves its materials
SaveNewSession ==
  /\ uuids < KeepLimit + EvictCount + MaxExtra
  /\ uuids' = uuids + 1
  /\ user_materials' =
       save_user_materials(user_materials, uuids + 1, NoMaterials)
  /\ UNCHANGED <<now, cfgVars, conns, handles, life, janitor, seen, logging,
                 tables, maint, resolved, rlVars, pc, sessVars, routeVars>>

\* session.py cleanup_expired_sessions() is called
CleanupUserMaterials ==
  /\ user_materials' = cleanup_expired_sessions(user_materials)
  /\ UNCHANGED <<now, cfgVars, conns, handles, life, janitor, seen, opsVars,
                 rlVars, pc, sessVars, routeVars>>

\* ------------------------------------------------------------------ init
Init ==
  /\ now = 0
  /\ limit \in 1..MaxLimit
  /\ window \in 1..MaxWindow
  /\ store \in {"healthy", "faulty", "none"}
  /\ rate_limits = <<>>
  /\ pc = [w \in Workers |-> "idle"]
  /\ call = [w \in Workers |-> NoCall]
  /\ result = [w \in Workers |-> NoResult]
  /\ win = <<>>
  /\ sessions = <<>>
  /\ touch = [w \in Workers |-> NoTouch]
  /\ touched = <<>>
  /\ usage_logs = <<>>
  /\ req = [w \in Workers |-> NoReq]
  /\ served = 0
  /\ logging = [w \in Workers |-> NoLog]
  /\ tables \in BOOLEAN
  /\ maint = [w \in Workers |-> NoMaint]
  /\ uuids = 0
  /\ resolved = <<>>
  /\ conns = {}
  /\ handles = NoHandles
  /\ user_materials = <<>>
  /\ seen = NoSeen
  /\ life = NoLife
  /\ janitor = NoJanitor

\* One worker, a working store: the limiter's sequential contract.
InitSeq == Init /\ store = "healthy" /\ tables

NextSeq ==
  \/ Tick
  \/ \E w \in SeqWorkers, k \in Keys : CheckBegin(w, k)
  \/ \E w \in SeqWorkers : RlGet(w)
  \/ \E w \in SeqWorkers : RlDecide(w)
  \/ \E w \in SeqWorkers : CheckReturn(w)

SpecSeq == InitSeq /\ [][NextSeq]_vars

\* A store that is absent, or that may raise on any of its calls.
InitFault == Init /\ store \in {"faulty", "none"} /\ tables

NextFault ==
  \/ Tick
  \/ \E w \in SeqWorkers, k \in SharedKeys : CheckBegin(w, k)
  \/ \E w \in SeqWorkers : RlGet(w)
  \/ \E w \in SeqWorkers : RlDecide(w)
  \/ \E w \in SeqWorkers : CheckReturn(w)

SpecFault == InitFault /\ [][NextFault]_vars

\* Several workers checking one key within one window, a working store.
NextConc ==
  \/ TickWithinWindow
  \/ \E w \in Workers, k \in SharedKeys : CheckBegin(w, k)
  \/ \E w \in Workers : RlGet(w)
  \/ \E w \in Workers : RlDecide(w)
  \/ \E w \in Workers : CheckReturn(w)

SpecConc == InitSeq /\ [][NextConc]_vars

\* Several workers checking one key while windows open and expire, a
\* working store.
NextConcTime ==
  \/ Tick
  \/ \E w \in Workers, k \in SharedKeys : CheckBegin(w, k)
  \/ \E w \in Workers : RlGet(w)
  \/ \E w \in Workers : RlDecide(w)
  \/ \E w \in Workers : CheckReturn(w)

SpecConcTime == InitSeq /\ [][NextConcTime]_vars

\* One worker touching sessions, a working store.
InitSess == InitSeq /\ limit = MaxLimit /\ window = MaxWindow

NextSess ==
  \/ Tick
  \/ \E w \in SeqWorkers, sid \in SessionIds, ip \in IpAddresses :
       TouchBegin(w, sid, ip)
  \/ \E w \in SeqWorkers : UaUpdate(w)
  \/ \E w \in SeqWorkers : UaCreate(w)
  \/ \E w \in SeqWorkers : UaInsert(w)
  \/ \E w \in SeqWorkers : TouchReturn(w)

SpecSess == InitSess /\ [][NextSess]_vars

\* Several workers touching one session id, a working store.
NextSessConc ==
  \/ Tick
  \/ \E w \in Workers, sid \in SharedSessionIds, ip \in IpAddresses :
       TouchBegin(w, sid, ip)
  \/ \E w \in Workers : UaUpdate(w)
  \/ \E w \in Workers : UaCreate(w)
  \/ \E w \in Workers : UaInsert(w)
  \/ \E w \in Workers : TouchReturn(w)

SpecSessConc == InitSess /\ [][NextSessConc]_vars

\* One worker touching sessions on a store that is absent or may raise.
InitSessFault == InitFault /\ limit = MaxLimit /\ window = MaxWindow

SpecSessFault == InitSessFault /\ [][NextSess]_vars

\* One worker recording usage, on a store of any kind.
InitLog == Init /\ tables /\ limit = MaxLimit /\ window = MaxWindow

NextLog ==
  \/ Tick
  \/ \E w \in SeqWorkers, sid \in SharedSessionIds, success \in BOOLEAN :
       LogBegin(w, sid, "correct", success, "1.2.3.4",
                IF success THEN "" ELSE "boom")
  \/ \E w \in SeqWorkers : LuInsert(w)
  \/ \E w \in SeqWorkers : LogReturn(w)

SpecLog == InitLog /\ [][NextLog]_vars

\* One worker resolving session ids from cookies and touching the sessions
\* so named, a working store.
NextResolve ==
  \/ \E w \in SeqWorkers, cookie \in Cookies : GetSessionId(w, cookie)
  \/ \E w \in SeqWorkers, sid \in ResolvedIds : TouchBegin(w, sid, "1.2.3.4")
  \/ \E w \in SeqWorkers : UaUpdate(w)
  \/ \E w \in SeqWorkers : UaCreate(w)
  \/ \E w \in SeqWorkers : UaInsert(w)
  \/ \E w \in SeqWorkers : TouchReturn(w)

SpecResolve == InitSess /\ [][NextResolve]_vars

\* One worker creating, touching and expiring sessions, a working store.
NextStore ==
  \/ Tick
  \/ \E w \in SeqWorkers, sid \in SharedSessionIds, ip \in IpAddresses :
       TouchBegin(w, sid, ip)
  \/ \E w \in SeqWorkers, sid \in SharedSessionIds, ip \in IpAddresses :
       DbCreateBegin(w, sid, ip)
  \/ \E w \in SeqWorkers : UaUpdate(w)
  \/ \E w \in SeqWorkers : UaCreate(w)
  \/ \E w \in SeqWorkers : UaInsert(w)
  \/ \E w \in SeqWorkers : TouchReturn(w)
  \/ \E w \in SeqWorkers, ttl_seconds \in 1..MaxTtl :
       CleanupExpired(w, ttl_seconds)
  \/ \E w \in SeqWorkers : ClearAllData(w)
  \/ \E w \in SeqWorkers : MaintReturn(w)

SpecStore == InitSess /\ [][NextStore]_vars

\* The same over two session ids, every call from one address.
NextCount ==
  \/ Tick
  \/ \E w \in SeqWorkers, sid \in SessionIds : TouchBegin(w, sid, "1.2.3.4")
  \/ \E w \in SeqWorkers, sid \in SessionIds : DbCreateBegin(w, sid, "1.2.3.4")
  \/ \E w \in SeqWorkers : UaUpdate(w)
  \/ \E w \in SeqWorkers : UaCreate(w)
  \/ \E w \in SeqWorkers : UaInsert(w)
  \/ \E w \in SeqWorkers : TouchReturn(w)
  \/ \E w \in SeqWorkers, ttl_seconds \in 1..MaxTtl :
       CleanupExpired(w, ttl_seconds)
  \/ \E w \in SeqWorkers : ClearAllData(w)
  \/ \E w \in SeqWorkers : MaintReturn(w)

SpecCount == InitSess /\ [][NextCount]_vars

\* the clock advancing between two calls
TickIdle ==
  /\ \A w \in Workers : pc[w] = "idle"
  /\ Tick

\* One worker filling the three tables with rows of different ages (a
\* session, a counter and a log row are each written once, the clock moves
\* between the calls) and running the maintenance calls, a working store.
NextMaint ==
  \/ TickIdle
  \/ \E w \in SeqWorkers, sid \in SessionIds :
       sid \notin DOMAIN sessions /\ DbCreateBegin(w, sid, "1.2.3.4")
  \/ \E w \in SeqWorkers : UaCreate(w)
  \/ \E w \in SeqWorkers : UaInsert(w)
  \/ \E w \in SeqWorkers : TouchReturn(w)
  \/ \E w \in SeqWorkers, k \in SharedKeys :
       k \notin DOMAIN rate_limits /\ CheckBegin(w, k)
  \/ \E w \in SeqWorkers : RlGet(w)
  \/ \E w \in SeqWorkers : RlDecide(w)
  \/ \E w \in SeqWorkers : CheckReturn(w)
  \/ \E w \in SeqWorkers, sid \in SharedSessionIds :
       LogBegin(w, sid, "correct", TRUE, "1.2.3.4", "")
  \/ \E w \in SeqWorkers : LuInsert(w)
  \/ \E w \in SeqWorkers : LogReturn(w)
  \/ \E w \in SeqWorkers, ttl_seconds \in 1..MaxTtl :
       CleanupExpired(w, ttl_seconds)
  \/ \E w \in SeqWorkers : ClearAllData(w)
  \/ \E w \in SeqWorkers : MaintReturn(w)

SpecMaint == InitSess /\ [][NextMaint]_vars

\* One worker creating the schema, before and after sessions are written,
\* on a database file that may hold the tables already and a store that
\* may fail.
InitSchema ==
  Init /\ store \in {"healthy", "faulty"} /\ limit = MaxLimit
       /\ window = MaxWindow

NextSchema ==
  \/ Tick
  \/ \E w \in SeqWorkers, sid \in SharedSessionIds, ip \in IpAddresses :
       TouchBegin(w, sid, ip)
  \/ \E w \in SeqWorkers : UaUpdate(w)
  \/ \E w \in SeqWorkers : UaCreate(w)
  \/ \E w \in SeqWorkers : UaInsert(w)
  \/ \E w \in SeqWorkers : TouchReturn(w)
  \/ \E w \in SeqWorkers : CreateTables(w)
  \/ \E w \in SeqWorkers : MaintReturn(w)

SpecSchema == InitSchema /\ [][NextSchema]_vars

\* One worker answering /health and touching sessions on a store that is
\* absent or may raise.
InitHealth == InitFault /\ window = MaxWindow

NextHealth ==
  \/ \E w \in SeqWorkers, sid \in SharedSessionIds :
       HealthBegin(w, sid, "1.2.3.4")
  \/ \E w \in SeqWorkers : HealthCount(w)
  \/ \E w \in SeqWorkers : RlGet(w)
  \/ \E w \in SeqWorkers : RlDecide(w)
  \/ \E w \in SeqWorkers : RouteGate(w)
  \/ \E w \in SeqWorkers : RouteHandler(w)
  \/ \E w \in SeqWorkers : RouteRespond(w)
  \/ \E w \in SeqWorkers, sid \in SessionIds : TouchBegin(w, sid, "1.2.3.4")
  \/ \E w \in SeqWorkers : UaUpdate(w)
  \/ \E w \in SeqWorkers : UaCreate(w)
  \/ \E w \in SeqWorkers : UaInsert(w)
  \/ \E w \in SeqWorkers : TouchReturn(w)

SpecHealth == InitHealth /\ [][NextHealth]_vars

\* One worker serving requests on every route within one clock tick (so
\* within one rate-limit window), a working store.
InitRoute == InitSeq /\ window = MaxWindow

NextRoute ==
  \/ \E w \in SeqWorkers, r \in Routes, sid \in SharedSessionIds :
       RouteBegin(w, r, sid, "1.2.3.4")
  \/ \E w \in SeqWorkers, sid \in SharedSessionIds :
       HealthBegin(w, sid, "1.2.3.4")
  \/ \E w \in SeqWorkers : HealthCount(w)
  \/ \E w \in SeqWorkers : RlGet(w)
  \/ \E w \in SeqWorkers : RlDecide(w)
  \/ \E w \in SeqWorkers : RouteGate(w)
  \/ \E w \in SeqWorkers : RouteHandler(w)
  \/ \E w \in SeqWorkers : UaUpdate(w)
  \/ \E w \in SeqWorkers : UaCreate(w)
  \/ \E w \in SeqWorkers : UaInsert(w)
  \/ \E w \in SeqWorkers : RouteLogSuccess(w)
  \/ \E w \in SeqWorkers : RouteLogFailure(w)
  \/ \E w \in SeqWorkers : RouteRespond(w)

SpecRoute == InitRoute /\ [][NextRoute]_vars

InitConn == InitSess

\* two threads use one store; each opens its connection on its first call
NextConn ==
  \/ \E w \in Workers : GetConnection(w)
  \/ \E w \in Workers, sid \in SharedSessionIds, ip \in IpAddresses :
       w \in conns /\ TouchBegin(w, sid, ip)
  \/ \E w \in Workers : UaUpdate(w)
  \/ \E w \in Workers : UaCreate(w)
  \/ \E w \in Workers : UaInsert(w)
  \/ \E w \in Workers : TouchReturn(w)
  \/ \E w \in Workers : Close(w)

SpecConn == InitConn /\ [][NextConn]_vars

InitLife ==
  Init /\ store = "healthy" /\ limit = MaxLimit /\ window = MaxWindow

\* processes that start, serve requests, stop and start again
NextLife ==
  \/ LifeStart
  \/ LifeCreateTables
  \/ LifeClearAllData
  \/ LifeAfterCall
  \/ \E sid \in SharedSessionIds :
       life.phase = "serving" /\ TouchBegin(RequestThread, sid, "1.2.3.4")
  \/ UaUpdate(RequestThread)
  \/ UaCreate(RequestThread)
  \/ UaInsert(RequestThread)
  \/ TouchReturn(RequestThread)
  \/ \E k \in SharedKeys :
       life.phase = "serving" /\ CheckBegin(RequestThread, k)
  \/ RlGet(RequestThread)
  \/ RlDecide(RequestThread)
  \/ CheckReturn(RequestThread)
  \/ \E sid \in SharedSessionIds :
       /\ life.phase = "serving"
       /\ LogBegin(RequestThread, sid, "correct", TRUE, "1.2.3.4", "")
  \/ LuInsert(RequestThread)
  \/ LogReturn(RequestThread)
  \/ LifeCancel
  \/ JanitorCancelled
  \/ LifeClose

SpecLife == InitLife /\ [][NextLife]_vars

InitJanitor ==
  Init /\ store \in {"healthy", "faulty"} /\ tables /\ limit = MaxLimit
       /\ window = MaxWindow

\* one process with its background loop, on a store that may raise
NextJanitor ==
  \/ TickIdle
  \/ life.phase = "none" /\ LifeStart
  \/ LifeCreateTables
  \/ LifeClearAllData
  \/ LifeAfterCall
  \/ \E sid \in SharedSessionIds :
       life.phase = "serving" /\ TouchBegin(RequestThread, sid, "1.2.3.4")
  \/ UaUpdate(RequestThread)
  \/ UaCreate(RequestThread)
  \/ UaInsert(RequestThread)
  \/ TouchReturn(RequestThread)
  \/ JanitorPass
  \/ JanitorAfter
  \/ LifeCancel
  \/ JanitorCancelled
  \/ LifeClose

SpecJanitor == InitJanitor /\ [][NextJanitor]_vars

\* touches on two sessions at the start, then checks on two keys while the
\* clock runs, one call at a time
NextKeys ==
  \/ DOMAIN sessions = SessionIds /\ TickIdle
  \/ \E w \in SeqWorkers, k \in Keys : CheckBegin(w, k)
  \/ \E w \in SeqWorkers : RlGet(w)
  \/ \E w \in SeqWorkers : RlDecide(w)
  \/ \E w \in SeqWorkers : CheckReturn(w)
  \/ \E w \in SeqWorkers, sid \in SessionIds :
       rate_limits = <<>> /\ TouchBegin(w, sid, "1.2.3.4")
  \/ \E w \in SeqWorkers : UaUpdate(w)
  \/ \E w \in SeqWorkers : UaCreate(w)
  \/ \E w \in SeqWorkers : UaInsert(w)
  \/ \E w \in SeqWorkers : TouchReturn(w)

SpecKeys == InitSess /\ [][NextKeys]_vars

\* a check on one thread while maintenance runs on another
NextRace ==
  \/ Tick
  \/ \E k \in SharedKeys : CheckBegin(RequestThread, k)
  \/ RlGet(RequestThread)
  \/ RlDecide(RequestThread)
  \/ CheckReturn(RequestThread)
  \/ \E ttl_seconds \in 1..MaxTtl : CleanupExpired(MainThread, ttl_seconds)
  \/ ClearAllData(MainThread)
  \/ MaintReturn(MainThread)

SpecRace == InitSess /\ [][NextRace]_vars

\* sessions save materials one after the other; the cleanup runs now and
\* then
NextEvict ==
  \/ SaveNewSession
  \/ CleanupUserMaterials

SpecEvict == InitSess /\ [][NextEvict]_vars

\* two sessions upload, add, delete and read materials
NextMaterials ==
  \/ \E sid \in SessionIds, names \in SUBSET MaterialNames :
       UploadMaterials(sid, names)
  \/ \E sid \in SessionIds, name \in MaterialNames :
       AddManualMaterial(sid, name)
  \/ \E sid \in SessionIds, name \in MaterialNames :
       DeleteCustomMaterial(sid, name)
  \/ \E sid \in SessionIds : ReadMaterials(sid)

SpecMaterials == InitSess /\ [][NextMaterials]_vars

\* ------------------------------------------------- the limiter's contract
\* C1: a check of a key that has no counter returns allowed with
\* remaining = limit - 1 and reset = the epoch second of now + window, and
\* leaves the counter at requests = 1, window_start = now.
C1_FirstCheckCreates ==
  \A w \in SeqWorkers :
    (pc[w] = "rl_done" /\ call[w].rate_limit = NoneRow) =>
      /\ result[w] = [allowed |-> TRUE, limit |-> limit,
                      remaining |-> limit - 1,
                      reset |-> ToEpochSeconds(call[w].now + WindowTicks)]
      /\ call[w].key \in DOMAIN rate_limits
      /\ rate_limits[call[w].key] =
           [requests |-> 1, window_start |-> call[w].now]

C1_Witness ==
  \E w \in SeqWorkers :
    /\ pc[w] = "rl_done" /\ call[w].rate_limit = NoneRow
    /\ call[w].now > 0 /\ result[w].allowed
    /\ call[w].key \in DOMAIN rate_limits

\* C2: the n-th check of a key within one window (counted from the check
\* that found no counter) is allowed with remaining = limit - n while
\* n <= limit, and every later one in that window is denied with remaining 0.
C2_QuotaWithinWindow ==
  \A w \in SeqWorkers :
    pc[w] = "rl_done" =>
      LET n == win[call[w].key].n
      IN /\ n <= limit =>
              result[w].allowed /\ result[w].remaining = limit - n
         /\ n > limit =>
              ~result[w].allowed /\ result[w].remaining = 0

C2_Witness ==
  \E w \in SeqWorkers :
    /\ pc[w] = "rl_done" /\ limit >= 2
    /\ win[call[w].key].n = limit + 1
    /\ ~result[w].allowed

\* C3: a check that finds a counter whose window has elapsed
\* (now - window_start > window), whatever its requests, resets it to
\* requests = 1, window_start = now and returns the first-call info.
C3_ExpiredWindowResets ==
  \A w \in SeqWorkers :
    (/\ pc[w] = "rl_done"
     /\ call[w].rate_limit # NoneRow
     /\ call[w].now - call[w].rate_limit.window_start > WindowTicks) =>
      /\ result[w] = [allowed |-> TRUE, limit |-> limit,
                      remaining |-> limit - 1,
                      reset |-> ToEpochSeconds(call[w].now + WindowTicks)]
      /\ rate_limits[call[w].key] =
           [requests |-> 1, window_start |-> call[w].now]

C3_Witness ==
  \E w \in SeqWorkers :
    /\ pc[w] = "rl_done"
    /\ call[w].rate_limit # NoneRow
    /\ call[w].rate_limit.requests >= limit
    /\ call[w].now - call[w].rate_limit.window_start > WindowTicks
    /\ result[w].allowed

\* C4: a check that returns allowed = false found the counter inside its
\* window with requests >= limit, writes nothing, and returns remaining 0
\* and reset = the epoch second of window_start + window.
C4_DeniedWritesNothing ==
  [][\A w \in SeqWorkers :
       (pc[w] = "rl_decide" /\ pc'[w] = "rl_done" /\ ~result'[w].allowed) =>
         /\ rate_limits' = rate_limits
         /\ call[w].key \in DOMAIN rate_limits
         /\ LET c == rate_limits[call[w].key]
            IN /\ c.requests >= limit
               /\ call[w].now - c.window_start <= WindowTicks
               /\ result'[w].remaining = 0
               /\ result'[w].reset =
                    ToEpochSeconds(c.window_start + WindowTicks)]_vars

C4_Witness ==
  \E w \in SeqWorkers :
    /\ pc[w] = "rl_done" /\ ~result[w].allowed /\ result[w].limit = limit
    /\ call[w].now > rate_limits[call[w].key].window_start
    /\ rate_limits[call[w].key] = call[w].rate_limit

\* C5: a check that finds the counter inside its window with
\* requests < limit writes requests + 1 with the window_start it read and
\* returns remaining = limit - (requests + 1), reset = window_start + window;
\* an existing counter's window_start changes only on the expired path.
C5_IncrementKeepsWindowStart ==
  [][/\ \A w \in SeqWorkers :
          (/\ pc[w] = "rl_decide" /\ pc'[w] = "rl_done"
           /\ call[w].rate_limit # NoneRow
           /\ call[w].now - call[w].rate_limit.window_start <= WindowTicks
           /\ call[w].rate_limit.requests < limit) =>
            LET row == call[w].rate_limit
            IN /\ rate_limits'[call[w].key] =
                    [requests |-> row.requests + 1,
                     window_start |-> row.window_start]
               /\ result'[w] =
                    [allowed |-> TRUE, limit |-> limit,
                     remaining |-> limit - (row.requests + 1),
                     reset |-> ToEpochSeconds(row.window_start + WindowTicks)]
     /\ \A k \in DOMAIN rate_limits \cap DOMAIN rate_limits' :
          rate_limits'[k].window_start # rate_limits[k].window_start =>
            \E w \in SeqWorkers :
              /\ pc[w] = "rl_decide" /\ call[w].key = k
              /\ call[w].now - rate_limits[k].window_start > WindowTicks
              /\ rate_limits'[k].window_start = call[w].now]_vars

C5_Witness ==
  \E w \in SeqWorkers :
    /\ pc[w] = "rl_done" /\ result[w].allowed
    /\ call[w].rate_limit # NoneRow
    /\ call[w].rate_limit.window_start < call[w].now
    /\ call[w].now - call[w].rate_limit.window_start <= WindowTicks
    /\ rate_limits[call[w].key].requests = call[w].rate_limit.requests + 1
    /\ rate_limits[call[w].key].window_start = call[w].rate_limit.window_start

\* ---------------------------------------------------------------- fail-open
\* C6: a check made with no store (None), or during which a store call
\* raised (at the read or at any write), returns allowed = true with
\* limit, remaining = limit - 1 and reset = the epoch second of
\* now + window; a storage fault never yields allowed = false.
C6_FailOpen ==
  \A w \in SeqWorkers :
    (pc[w] = "rl_done" /\ (store = "none" \/ call[w].raised)) =>
      result[w] = [allowed |-> TRUE, limit |-> limit,
                   remaining |-> limit - 1,
                   reset |-> ToEpochSeconds(call[w].now + WindowTicks)]

\* a write raised after a successful read of an exhausted counter
C6_Witness ==
  \E w \in SeqWorkers :
    /\ pc[w] = "rl_done" /\ call[w].raised /\ store = "faulty"
    /\ call[w].rate_limit # NoneRow
    /\ call[w].key \in DOMAIN rate_limits
    /\ result[w].allowed

\* -------------------------------------------------------------------- routes
\* C7: on every rate-limited route, a request whose check returned
\* allowed = false is rejected with status 429 and its business handler
\* does not run.
C7_DeniedIsRejected ==
  \A w \in SeqWorkers :
    (req[w] # NoReq /\ result[w] # NoResult /\ ~result[w].allowed) =>
      /\ ~req[w].handler_ran
      /\ pc[w] = "rt_resp" => req[w].status = 429

\* C21: within a request the limiter's check comes before the handler, and
\* the session touch and then the usage record come after the handler; a
\* request the limiter denied runs none of handler, touch and record.
C21_RequestOrder ==
  \A w \in SeqWorkers :
    LET tr == req[w].trace
        At(e) == {i \in 1..Len(tr) : tr[i] = e}
    IN /\ \A h \in At("handler") : \E c \in At("check") : c < h
       /\ \A t \in At("touch") : \E h \in At("handler") : h < t
       /\ \A r \in At("record") :
            /\ \E h \in At("handler") : h < r
            /\ \A t \in At("touch") : t < r
       /\ (pc[w] \in {"rt_handler", "ua_update", "ua_create", "ua_insert",
                      "ua_done", "rt_fail", "rt_resp"}
           /\ ~result[w].allowed)
            => At("handler") \cup At("touch") \cup At("record") = {}

\* C22: a request the limiter allowed leaves exactly one usage-log row of
\* its outcome: success = true when the handler completed, success = false
\* with the error text when it failed in any way, client errors included.
C22_OneRecordPerRequest ==
  \A w \in SeqWorkers :
    (pc[w] = "rt_resp" /\ result[w].allowed)
    => /\ Len(usage_logs) = req[w].logs_before + 1
       /\ usage_logs[Len(usage_logs)].success = (req[w].error = "")
       /\ usage_logs[Len(usage_logs)].error_message = req[w].error

\* -------------------------------------------------------------- concurrency
\* C8: for checks of one key by several workers within one window, with a
\* working store, no increment is lost: at most limit checks are allowed,
\* and when no check of the key is in flight the stored requests equals the
\* number of checks that were allowed.
C8_NoLostIncrement ==
  \A k \in DOMAIN win :
    /\ win[k].granted <= limit
    /\ (\A w \in Workers : pc[w] = "idle") =>
         /\ k \in DOMAIN rate_limits
         /\ rate_limits[k].requests = win[k].granted

C10_TouchCreates ==
  \A w \in SeqWorkers :
    (pc[w] = "ua_done" /\ touch[w].rowcount = 0) =>
      /\ ~touch[w].raised
      /\ touch[w].session_id \in DOMAIN sessions
      /\ LET row == sessions[touch[w].session_id]
         IN /\ row.request_count = 1
            /\ row.created_at = row.last_activity

\* ---------------------------------------------------- the session contract
\* C11: a touch of an existing session raises its request_count by exactly 1
\* and never lowers its last_activity; a session created and then touched k
\* times has request_count = 1 + k.
C11_TouchIncrements ==
  /\ [](\A sid \in DOMAIN sessions :
         sessions[sid].request_count = 1 + (touched[sid] - 1))
  /\ [][\A w \in SeqWorkers :
          LET sid == touch[w].session_id
          IN (pc[w] = "ua_update" /\ pc'[w] # "ua_update"
              /\ sid \in DOMAIN sessions)
             => /\ sessions'[sid].request_count
                     = sessions[sid].request_count + 1
                /\ sessions'[sid].last_activity
                     >= sessions[sid].last_activity]_vars

\* a session touched twice after its creation, the last touch at a later time
C11_Witness ==
  \E w \in SeqWorkers :
    LET sid == touch[w].session_id
    IN /\ pc[w] = "ua_done"
       /\ touch[w].rowcount = 1
       /\ sid \in DOMAIN sessions
       /\ sessions[sid].request_count = 3
       /\ sessions[sid].last_activity > sessions[sid].created_at

\* C12: a touch of an existing session leaves the stored ip_address equal to
\* the address passed to that touch.
C12_TouchOverwritesIp ==
  \A w \in SeqWorkers :
    LET sid == touch[w].session_id
    IN (pc[w] = "ua_done" /\ touch[w].rowcount = 1 /\ sid \in DOMAIN sessions)
       => sessions[sid].ip_address = touch[w].ip_address

\* C14: under any interleaving of checks by several workers, every
\* rate-limit counter has requests >= 1 and its window_start never moves
\* backward from one state to the next.
C14_CounterMonotone ==
  /\ [](\A k \in DOMAIN rate_limits : rate_limits[k].requests >= 1)
  /\ [][\A k \in DOMAIN rate_limits :
          k \in DOMAIN rate_limits'
          => rate_limits'[k].window_start >= rate_limits[k].window_start]_vars

\* C13: whatever sequence of create_session, update_session_activity,
\* cleanup_expired_sessions and clear_all_data has run, every session row
\* has request_count >= 1 and last_activity >= created_at.
C13_SessionRowInvariant ==
  \A sid \in DOMAIN sessions :
    /\ sessions[sid].request_count >= 1
    /\ sessions[sid].last_activity >= sessions[sid].created_at

\* a touched session that a cleanup has just left in place
C13_Witness ==
  \E w \in SeqWorkers, sid \in DOMAIN sessions :
    /\ pc[w] = "maint_done"
    /\ maint[w].op = "cleanup_expired_sessions"
    /\ sessions[sid].request_count >= 2
    /\ sessions[sid].last_activity > sessions[sid].created_at

\* ---------------------------------------------------------- maintenance
\* C15: cleanup_expired_sessions(ttl) leaves in each table exactly the rows
\* whose timestamp (sessions: last_activity, rate limits: window_start,
\* usage logs: timestamp) is at or after now - ttl, unmodified.
C15_CleanupByCutoff ==
  \A w \in SeqWorkers :
    LET m == maint[w]
        cutoff == m.now - m.ttl_seconds * TicksPerSec
    IN (pc[w] = "maint_done" /\ m.op = "cleanup_expired_sessions"
        /\ ~m.raised)
       => /\ sessions =
               [x \in {y \in DOMAIN m.sessions :
                         m.sessions[y].last_activity >= cutoff}
                  |-> m.sessions[x]]
          /\ rate_limits =
               [x \in {y \in DOMAIN m.rate_limits :
                         m.rate_limits[y].window_start >= cutoff}
                  |-> m.rate_limits[x]]
          /\ usage_logs =
               SelectSeq(m.usage_logs, LAMBDA row : row.timestamp >= cutoff)

\* a cleanup that removed one of two sessions, one of two log rows and the
\* rate-limit counter
C15_Witness ==
  \E w \in SeqWorkers :
    /\ pc[w] = "maint_done"
    /\ maint[w].op = "cleanup_expired_sessions"
    /\ Cardinality(DOMAIN maint[w].sessions) = 2
    /\ Cardinality(DOMAIN sessions) = 1
    /\ Len(maint[w].usage_logs) = 2
    /\ Len(usage_logs) = 1
    /\ DOMAIN maint[w].rate_limits # {}
    /\ DOMAIN rate_limits = {}

\* C16: clear_all_data() leaves the three tables empty whatever the age of
\* their rows: get_session_count() is 0, get_session and get_rate_limit
\* find nothing for any key.
C16_ClearEmptiesAll ==
  \A w \in SeqWorkers :
    (pc[w] = "maint_done" /\ maint[w].op = "clear_all_data"
     /\ ~maint[w].raised)
    => /\ get_session_count(sessions) = 0
       /\ \A sid \in SessionIds : get_session(sessions, sid) = NoSession
       /\ \A k \in Keys : get_rate_limit(rate_limits, k) = NoneRow
       /\ usage_logs = <<>>

\* a wipe that found rows in all three tables, one session written at the
\* time of the wipe and one older than the longest ttl
C16_Witness ==
  \E w \in SeqWorkers :
    LET m == maint[w]
    IN /\ pc[w] = "maint_done"
       /\ m.op = "clear_all_data"
       /\ \E sid \in DOMAIN m.sessions :
            m.sessions[sid].last_activity = m.now
       /\ \E sid \in DOMAIN m.sessions :
            m.sessions[sid].last_activity < m.now - MaxTtl * TicksPerSec
       /\ DOMAIN m.rate_limits # {}
       /\ Len(m.usage_logs) > 0

\* C17: create_tables() on a database that already has the tables does not
\* fail, it never changes a row, and a failure of any other kind (the
\* database file or the script cannot be opened) reaches the caller.
C17_CreateTablesIdempotent ==
  \A w \in SeqWorkers :
    LET m == maint[w]
    IN (pc[w] = "maint_done" /\ m.op = "create_tables")
       => /\ sessions = m.sessions
          /\ rate_limits = m.rate_limits
          /\ usage_logs = m.usage_logs
          /\ (m.tables /\ m.error \in {NoError, ErrAlreadyExists})
               => ~m.raised
          /\ m.error \notin {NoError, ErrAlreadyExists} => m.raised

\* the script stopped on the existing tables, which hold a session
C17_Witness ==
  \E w \in SeqWorkers :
    /\ pc[w] = "maint_done"
    /\ maint[w].op = "create_tables"
    /\ maint[w].tables
    /\ maint[w].error = ErrAlreadyExists
    /\ DOMAIN sessions # {}
    /\ ~maint[w].raised

\* ------------------------------------------------------------- the helpers
\* C18: the helper update_session_activity never raises: when the store's
\* touch-or-create fails (or there is no store) the error stays inside the
\* helper and the caller goes on.
C18_TouchNeverRaises ==
  \A w \in SeqWorkers :
    (pc[w] = "ua_done" /\ touch[w].helper) => ~touch[w].escaped

\* the INSERT of a first touch raised
C18_Witness ==
  \E w \in SeqWorkers :
    /\ pc[w] = "ua_done"
    /\ touch[w].helper
    /\ touch[w].rowcount = 0
    /\ touch[w].raised

\* C19: the helper log_usage makes one insert carrying the fields it was
\* given and never raises: when the store fails nothing is written and
\* nothing reaches the caller.
C19_LogUsageNeverRaises ==
  \A w \in SeqWorkers :
    LET l == logging[w]
        n == Len(l.before)
    IN pc[w] = "lu_done"
       => /\ ~l.escaped
          /\ IF l.raised
             THEN usage_logs = l.before
             ELSE /\ Len(usage_logs) = n + 1
                  /\ SubSeq(usage_logs, 1, n) = l.before
                  /\ usage_logs[n + 1].session_id = l.session_id
                  /\ usage_logs[n + 1].endpoint = Endpoint(l.route)
                  /\ usage_logs[n + 1].success = l.success
                  /\ usage_logs[n + 1].error_message = l.error_message
                  /\ usage_logs[n + 1].ip_address = l.ip_address

\* a failed insert after a successful one
C19_Witness ==
  \E w \in SeqWorkers :
    /\ pc[w] = "lu_done"
    /\ logging[w].raised
    /\ Len(usage_logs) = 1

\* C20: get_session_id returns a non-empty cookie value as it is, and
\* otherwise a generated id that differs from the one of every other call;
\* the call itself writes nothing to the store.
C20_ResolveSessionId ==
  /\ [](\A i \in 1..Len(resolved) :
         LET cookie == resolved[i][1]
             id == resolved[i][2]
         IN IF cookie \notin {NoCookie, ""}
            THEN id = cookie
            ELSE \A j \in 1..Len(resolved) : j # i => resolved[j][2] # id)
  /\ [][resolved' # resolved
         => UNCHANGED <<sessions, rate_limits, usage_logs>>]_vars

\* two generated ids and a cookie taken as it is, no session written yet
C20_Witness ==
  /\ Len(resolved) = 3
  /\ resolved[1][1] = NoCookie
  /\ resolved[2][1] = ""
  /\ resolved[3] = <<"abc", "abc">>
  /\ sessions = <<>>

\* C23: while requests are served, createTables() and clearAllData() have
\* each been called exactly once in this process and before serving began,
\* in that order, and no row of a previous process is left in any table; a
\* request runs only while the process is serving; once the process has
\* stopped, close() has been called exactly once.
C23_StartupAndShutdown ==
  /\ life.phase = "serving"
       => /\ life.create_calls = 1
          /\ life.clear_calls = 1
          /\ life.close_calls = 0
          /\ ~life.stale
  /\ life.clear_calls <= life.create_calls
  /\ pc[RequestThread] # "idle" => life.phase = "serving"
  /\ life.phase = "stopped" => life.close_calls = 1

\* a second process serves on a database file in which the first one left
\* rows
C23_Witness ==
  /\ life.lifetime = 2
  /\ life.phase = "serving"
  /\ life.inherited > 0

\* C24: the background loop sleeps databaseTtlSeconds and then runs
\* cleanupExpiredSessions(databaseTtlSeconds), over and over, the first pass
\* too coming only after a full sleep; a pass that raises ends the loop,
\* which runs no further pass.
C24_JanitorLoop ==
  /\ [](/\ (pc[MainThread] = "maint_done" /\ janitor.state # "none")
            => /\ maint[MainThread].op = "cleanup_expired_sessions"
               /\ maint[MainThread].ttl_seconds = janitor.ttl
               /\ maint[MainThread].now
                    >= janitor.slept_from + janitor.ttl * TicksPerSec
        /\ janitor.state = "dead" => janitor.failed
        /\ janitor.state = "dead" => pc[MainThread] = "idle")
  /\ [][/\ (janitor.state = "sleep" /\ pc[MainThread] = "maint_done"
            /\ pc'[MainThread] = "idle")
           => /\ janitor'.passes = janitor.passes + 1
              /\ janitor'.slept_from = now
              /\ janitor'.state =
                   IF maint[MainThread].raised THEN "dead" ELSE "sleep"
        /\ janitor.state = "dead"
           => /\ janitor'.state = "dead"
              /\ janitor'.passes = janitor.passes
              /\ pc'[MainThread] = "idle"]_vars

\* the loop has ended on its second pass, the first one having succeeded
C24_Witness ==
  /\ janitor.state = "dead"
  /\ janitor.passes = 2

\* C25: once the loop, asleep, has been told to stop, it starts no cleanup
\* pass any more, not even for a part of the tables; it ends as cancelled
\* and not as failed.
C25_JanitorCancellation ==
  /\ [](janitor.state = "cancelled"
          => ~janitor.failed /\ pc[MainThread] = "idle")
  /\ [][(janitor.cancel /\ janitor.state \in {"sleep", "cancelled"}
          /\ pc[MainThread] = "idle")
         => /\ pc'[MainThread] = "idle"
            /\ janitor'.passes = janitor.passes
            /\ janitor'.state \in {"sleep", "cancelled"}
            /\ <<sessions, rate_limits, usage_logs>>' =
                 <<sessions, rate_limits, usage_logs>>]_vars

\* the loop was cancelled at a moment when its sleep was over and a pass
\* was due
C25_Witness ==
  /\ janitor.state = "cancelled"
  /\ sleep_elapsed(janitor, now)
  /\ RowCount > 0

\* C26: close() releases every connection of the store: when a close()
\* call returns, no connection opened by any thread remains open.
C26_CloseReleasesAll ==
  [][\A w \in Workers : Close(w) => conns' = {}]_vars

\* C27: /health survives a store fault: when get_session_count() raises,
\* the request still ends in a response (200, or 429 from the limiter), and
\* the 200 response reports the database as in error with session_count 0.
C27_HealthSurvivesFault ==
  \A w \in SeqWorkers :
    (pc[w] = "rt_resp" /\ req[w].route = "health" /\ req[w].count_raised)
    => /\ req[w].status \in {200, 429}
       /\ req[w].status = 200
            => /\ req[w].db_status = "error"
               /\ req[w].session_count = 0

\* the count raised although a session is stored, and the answer is 200
C27_Witness ==
  \E w \in SeqWorkers :
    /\ pc[w] = "rt_resp"
    /\ req[w].route = "health"
    /\ req[w].count_raised
    /\ req[w].status = 200
    /\ DOMAIN sessions # {}

\* C28: get_session_count() is the number of session ids stored: 0 on an
\* empty store, one more after each insert of a new id, the same after a
\* touch of an existing id or a failed insert, and less by the number of
\* rows a cleanup or a wipe removed.
C28_SessionCount ==
  /\ [](get_session_count(sessions) = Cardinality(DOMAIN touched))
  /\ [][\A w \in SeqWorkers :
          LET before == get_session_count(sessions)
              after == get_session_count(sessions')
              m == maint'[w]
              old == {sid \in DOMAIN sessions :
                        sessions[sid].last_activity
                          < m.now - m.ttl_seconds * TicksPerSec}
          IN /\ (pc[w] = "ua_insert" /\ pc'[w] = "ua_done")
                  => after = IF touch'[w].raised THEN before ELSE before + 1
             /\ (pc[w] = "ua_update" /\ pc'[w] # "ua_update")
                  => after = before
             /\ (pc[w] = "idle" /\ pc'[w] = "maint_done")
                  => after = IF m.op = "clear_all_data" THEN 0
                             ELSE before - Cardinality(old)]_vars

\* a cleanup that removed one of two sessions
C28_Witness ==
  \E w \in SeqWorkers :
    /\ pc[w] = "maint_done"
    /\ maint[w].op = "cleanup_expired_sessions"
    /\ get_session_count(maint[w].sessions) = 2
    /\ get_session_count(sessions) = 1

\* ------------------------------------------------------------- behaviour
\* C29: created_at is written when the session is created and no touch
\* changes it afterwards; a touch of an existing session leaves its
\* session_id and created_at as they were.
C29_CreatedAtImmutable ==
  [][\A sid \in DOMAIN sessions :
       /\ sid \in DOMAIN sessions'
       /\ sessions'[sid].created_at = sessions[sid].created_at]_vars

\* a session touched at a later time than it was created
C29_Witness ==
  \E w \in SeqWorkers :
    LET sid == touch[w].session_id
    IN /\ pc[w] = "ua_done"
       /\ touch[w].rowcount = 1
       /\ sid \in DOMAIN sessions
       /\ sessions[sid].created_at < now
       /\ sessions[sid].last_activity = now

\* C30: a check made exactly one window length after window_start is still
\* inside the window (denied when requests >= limit, otherwise counted with
\* the window_start unchanged); a counter is reset only when more than a
\* window length has passed.
C30_StrictExpiry ==
  \A w \in SeqWorkers :
    LET row == call[w].rate_limit
        t == call[w].now
    IN (pc[w] = "rl_done" /\ row # NoneRow)
       => /\ t - row.window_start = WindowTicks
               => /\ rate_limits[call[w].key].window_start = row.window_start
                  /\ IF row.requests >= limit
                     THEN /\ ~result[w].allowed
                          /\ rate_limits[call[w].key] = row
                     ELSE /\ result[w].allowed
                          /\ rate_limits[call[w].key].requests
                               = row.requests + 1
          /\ rate_limits[call[w].key] = [requests |-> 1, window_start |-> t]
               => (t - row.window_start > WindowTicks \/ row.window_start = t)

\* a denied check exactly one window length after window_start
C30_Witness ==
  \E w \in SeqWorkers :
    /\ pc[w] = "rl_done"
    /\ call[w].rate_limit # NoneRow
    /\ call[w].now - call[w].rate_limit.window_start = WindowTicks
    /\ ~result[w].allowed

\* ------------------------------------------------------ the last claims
\* C35: in a sequential history every check result carries the configured
\* limit and a remaining count in 0..limit-1; a denied result has
\* remaining = 0 and a reset time that is not before the time of the call.
C35_ResultBounds ==
  \A w \in SeqWorkers :
    pc[w] = "rl_done"
    => /\ result[w].limit = limit
       /\ result[w].remaining \in 0..(limit - 1)
       /\ ~result[w].allowed
            => /\ result[w].remaining = 0
               /\ result[w].reset * TicksPerSec >= call[w].now

\* C36: a denied check leaves the counter as it is, so it never extends the
\* window; a check made later than window_start + window length is allowed
\* and resets the counter, however exhausted the counter was and however
\* many denied checks came before.
C36_NoPermanentLockout ==
  [][\A w \in SeqWorkers :
       (pc[w] = "rl_decide" /\ pc'[w] = "rl_done")
       => LET k == call[w].key
              t == call[w].now
              row == call[w].rate_limit
          IN /\ ~result'[w].allowed => rate_limits' = rate_limits
             /\ (row # NoneRow /\ t > row.window_start + WindowTicks)
                  => /\ result'[w].allowed
                     /\ rate_limits'[k] = [requests |-> 1,
                                           window_start |-> t]]_vars

\* a check is allowed although the counter it read was exhausted: the
\* window of that counter was over
C36_Witness ==
  \E w \in SeqWorkers :
    /\ pc[w] = "rl_done"
    /\ result[w].allowed
    /\ call[w].rate_limit # NoneRow
    /\ call[w].rate_limit.requests >= limit
    /\ call[w].now > call[w].rate_limit.window_start + WindowTicks

\* C37: a check on one key leaves the counter of every other key as it
\* is and reads only its own key's counter; a touch of one session leaves
\* every other session as it is; a check is denied only when its own key
\* has used its quota, whatever the other keys' counters are.
C37_KeyIndependence ==
  /\ [](\A w \in Workers :
          (pc[w] = "rl_done" /\ ~result[w].allowed)
          => call[w].rate_limit.requests >= limit)
  /\ [][\A w \in Workers :
         /\ (pc[w] \in {"rl_get", "rl_decide"} /\ pc'[w] # pc[w])
            => /\ \A k2 \in DOMAIN rate_limits \ {call[w].key} :
                    /\ k2 \in DOMAIN rate_limits'
                    /\ rate_limits'[k2] = rate_limits[k2]
               /\ DOMAIN rate_limits' \subseteq
                    DOMAIN rate_limits \cup {call[w].key}
               /\ pc[w] = "rl_get" /\ pc'[w] = "rl_decide"
                    => call'[w].rate_limit
                         = get_rate_limit(rate_limits, call[w].key)
         /\ (pc[w] \in {"ua_update", "ua_create", "ua_insert"}
             /\ pc'[w] # pc[w])
            => /\ \A s2 \in DOMAIN sessions \ {touch[w].session_id} :
                    /\ s2 \in DOMAIN sessions'
                    /\ sessions'[s2] = sessions[s2]
               /\ DOMAIN sessions' \subseteq
                    DOMAIN sessions \cup {touch[w].session_id}]_vars

\* one key is denied while a check of another key has just been allowed,
\* and one session has been touched twice while the other has its first row
C37_Witness ==
  \E w \in Workers, k1 \in DOMAIN rate_limits :
    /\ pc[w] = "rl_done"
    /\ call[w].key # k1
    /\ result[w].allowed
    /\ rate_limits[k1].requests >= limit
    /\ ~WindowExpired(rate_limits[k1], now)
    /\ \E s1 \in DOMAIN sessions, s2 \in DOMAIN sessions :
         sessions[s1].request_count >= 2 /\ sessions[s2].request_count = 1

\* C34: with a healthy store, a check that returns allowed = true has left
\* a counter of its key in the store, with requests >= 1, also when a
\* cleanup pass or a wipe ran between its read and its write.
C34_AllowedLeavesCounter ==
  [][(pc[RequestThread] = "rl_decide" /\ pc'[RequestThread] = "rl_done"
      /\ result'[RequestThread].allowed)
     => /\ call[RequestThread].key \in DOMAIN rate_limits'
        /\ rate_limits'[call[RequestThread].key].requests >= 1]_vars

\* C32: the usage log changes only by log_usage appending one entry behind
\* the entries there are, by a cleanup pass taking out the entries older
\* than some instant, or by a wipe taking out all; the entries that stay
\* keep their fields and their order.
C32_UsageLogAppendOnly ==
  [][\/ usage_logs' = usage_logs
     \/ \E w \in SeqWorkers :
          /\ pc[w] = "lu_insert" /\ pc'[w] = "lu_done"
          /\ Len(usage_logs') = Len(usage_logs) + 1
          /\ SubSeq(usage_logs', 1, Len(usage_logs)) = usage_logs
     \/ \E w \in SeqWorkers :
          /\ pc[w] = "idle" /\ pc'[w] = "maint_done"
          /\ maint'[w].op = "clear_all_data"
          /\ usage_logs' = <<>>
     \/ \E w \in SeqWorkers :
          /\ pc[w] = "idle" /\ pc'[w] = "maint_done"
          /\ maint'[w].op = "cleanup_expired_sessions"
          /\ \E c \in 0..(now + 1) :
               usage_logs' =
                 SelectSeq(usage_logs, LAMBDA e : e.timestamp >= c)]_vars

\* a cleanup pass has taken out an old entry and left a newer one, and an
\* entry was appended behind another
C32_Witness ==
  \E w \in SeqWorkers :
    /\ pc[w] = "maint_done"
    /\ maint[w].op = "cleanup_expired_sessions"
    /\ Len(maint[w].usage_logs) = 2
    /\ Len(usage_logs) = 1
    /\ usage_logs[1] = maint[w].usage_logs[2]

\* C31: a thread without a connection gets a new one of its own on its
\* next store call and holds it, call after call, until it calls close();
\* two threads never hold the same connection and a connection is used only
\* by the thread that opened it.
C31_ConnectionPerThread ==
  /\ [](/\ \A c \in DOMAIN handles.users :
               handles.users[c] = {handles.opener[c]}
        /\ \A w \in Workers :
             /\ handles.of[w] # 0 => handles.opener[handles.of[w]] = w
             /\ w \in conns <=> handles.of[w] # 0)
  /\ [][\A w \in Workers :
         /\ handles.of[w] = 0
            => handles'.of[w] \in {0, handles.next}
         /\ handles.of[w] # 0
            => \/ handles'.of[w] = handles.of[w]
               \/ handles'.of[w] = 0 /\ pc[w] = "idle"
                    /\ \A x \in Workers \ {w} :
                         handles'.of[x] = handles.of[x]]_vars

\* both threads have made store calls, each on its own connection, and one
\* of them holds the connection it opened after a close()
C31_Witness ==
  /\ handles.of["w1"] # 0
  /\ handles.of["w2"] # 0
  /\ handles.of["w1"] # handles.of["w2"]
  /\ handles.next = MaxConns + 1
  /\ \E sid \in DOMAIN sessions : sessions[sid].request_count >= 2

\* C33: a run of the in-memory cleanup leaves at most 1000 sessions in the
\* map; the sessions it takes out are the oldest inserted, those that stay
\* are unchanged; a map of 1000 sessions or fewer is left as it is.
C33_KeepsLast1000 ==
  [][user_materials' # user_materials /\ uuids' = uuids
     => /\ Len(user_materials') <= KeepLimit
        /\ Len(user_materials) > KeepLimit
        /\ user_materials' =
             SubSeq(user_materials,
                    Len(user_materials) - Len(user_materials') + 1,
                    Len(user_materials))]_vars

\* C38: what get_user_materials(s) returns holds only materials that
\* session s supplied, for every session and after any sequence of uploads,
\* additions and deletions by the sessions; a session that saved nothing
\* gets the empty mapping, a read adds no entry to the map, and the map
\* holds each session once.
C38_MaterialsIsolation ==
  /\ [](/\ \A n \in DOMAIN seen.materials :
             seen.materials[n].owner = seen.session_id
        /\ \A sid \in SessionIds :
             LET mine == get_user_materials(user_materials, sid)
             IN /\ \A n \in DOMAIN mine : mine[n].owner = sid
                /\ (\A i \in 1..Len(user_materials) :
                      user_materials[i].key # sid) => mine = NoMaterials
        /\ \A i, j \in 1..Len(user_materials) :
             user_materials[i].key = user_materials[j].key => i = j)
  /\ [][seen' # seen => user_materials' = user_materials]_vars

\* both sessions hold materials of the same names, and the reader of one
\* has just read its own two
C38_Witness ==
  /\ Len(user_materials) = 2
  /\ \A i \in 1..2 : DOMAIN user_materials[i].materials = MaterialNames
  /\ seen.session_id = user_materials[2].key
  /\ DOMAIN seen.materials = MaterialNames

====
